---- MODULE Spec2Model ----
(***************************************************************************)
(* A model of the caching core of the Vibe CMS SDK: BrowserCache over a    *)
(* storage adapter, CollectionQuery's cache-or-fetch logic, and the        *)
(* client's locale state.                                                  *)
(*                                                                         *)
(* Strings are TLA+ strings (keys, endpoints); a stored string is modelled *)
(* by the JSON value it parses to.  A query is split at its only           *)
(* suspension point, the transport request: the part before it (key        *)
(* derivation, cache read, issuing the request) is one action, the part    *)
(* after it (slice, cache write, result) another.                          *)
(***************************************************************************)
EXTENDS Integers, Sequences, FiniteSets, TLC

(***************************************************************************)
(* Bounds of the model.                                                    *)
(***************************************************************************)
MaxCalls == 2   \* calls of the library in one run (queries, cache.get, cache.set)
MaxNow == 2     \* the clock runs from 0 to MaxNow milliseconds

(***************************************************************************)
(* Program constants.                                                      *)
(***************************************************************************)
DEFAULT_TTL == 300000
NULL_RESULT_TTL == 60000
CACHE_KEY_PREFIX == "vms"
DEFAULT_LOCALE == "en-US"
Undefined == -999    \* an optional number that was not supplied

(***************************************************************************)
(* Input domains.                                                          *)
(***************************************************************************)
ProjectId == "p1"
Locales == {"en", "en-US"}
Slugs == {"blog"}
ItemIds == {"a"}
Limits == {Undefined, 1}
\* the limits of the many() calls of SpecLimits: none, zero, below and above
\* the length of the remote collection
ManyLimits == {Undefined, 0, 1, 3}
ConfigTtls == {0, 1}
TtlOverrides == {Undefined, 0, 1}
ErrorStatuses == {404, 500}
Revs == {1}

(***************************************************************************)
(* String helpers.                                                         *)
(***************************************************************************)
StartsWith(s, p) == Len(p) <= Len(s) /\ SubSeq(s, 1, Len(p)) = p

RECURSIVE Join(_, _)
Join(parts, sep) ==
  IF Len(parts) = 0 THEN ""
  ELSE IF Len(parts) = 1 THEN parts[1]
  ELSE parts[1] \o sep \o Join(Tail(parts), sep)

CharCodes ==
  ("{" :> 123) @@ ("}" :> 125) @@ ("\"" :> 34) @@ (":" :> 58) @@ ("-" :> 45) @@
  ("l" :> 108) @@ ("i" :> 105) @@ ("m" :> 109) @@ ("t" :> 116) @@
  ("0" :> 48) @@ ("1" :> 49) @@ ("2" :> 50) @@ ("3" :> 51) @@ ("4" :> 52) @@
  ("5" :> 53) @@ ("6" :> 54) @@ ("7" :> 55) @@ ("8" :> 56) @@ ("9" :> 57) @@
  ("," :> 44) @@ ("A" :> 65) @@ ("B" :> 66) @@ ("a" :> 97) @@ ("d" :> 100) @@
  ("e" :> 101) @@ ("g" :> 103) @@ ("h" :> 104) @@ ("n" :> 110) @@
  ("r" :> 114) @@ ("v" :> 118) @@ ("w" :> 119)

charCodeAt(str, i) == CharCodes[SubSeq(str, i, i)]

Digits36 == "0123456789abcdefghijklmnopqrstuvwxyz"

\* A 32-bit value as two 16-bit halves, so that no intermediate overflows.
RECURSIVE ToBase36(_, _)
ToBase36(hi, lo) ==
  LET t == (hi % 36) * 65536 + lo
      d == SubSeq(Digits36, (t % 36) + 1, (t % 36) + 1)
  IN IF hi = 0 /\ lo < 36 THEN d
     ELSE ToBase36(hi \div 36, t \div 36) \o d

RECURSIVE HashLoop(_, _, _)
HashLoop(str, i, h) ==
  IF i > Len(str) THEN h
  ELSE LET lo == h.lo * 31 + charCodeAt(str, i)
           hi == h.hi * 31 + (lo \div 65536)
       IN HashLoop(str, i + 1, [hi |-> hi % 65536, lo |-> lo % 65536])

simpleHash(str) ==
  LET h == HashLoop(str, 1, [hi |-> 0, lo |-> 0])
      neg == h.hi >= 32768
      absLo == IF neg THEN (65536 - h.lo) % 65536 ELSE h.lo
      absHi == IF neg THEN (IF h.lo = 0 THEN 65536 - h.hi ELSE 65535 - h.hi)
               ELSE h.hi
  IN ToBase36(absHi, absLo)

\* JSON.stringify(params, Object.keys(params).sort()) for params = {limit}
ParamString(limit) == "{\"limit\":" \o ToString(limit) \o "}"

\* One property of a params object: a name and a number or string value.
NumParam(name, n) == [str |-> "", name |-> name, num |-> n, type |-> "number"]
StrParam(name, str) == [str |-> str, name |-> name, num |-> 0, type |-> "string"]

\* JSON.stringify of a number or of a string without characters to escape
JsonValue(p) == IF p.type = "number" THEN ToString(p.num) ELSE "\"" \o p.str \o "\""

\* the default comparison of Array.prototype.sort: by UTF-16 code units
RECURSIVE StrLess(_, _)
StrLess(a, b) ==
  IF Len(b) = 0 THEN FALSE
  ELSE IF Len(a) = 0 THEN TRUE
  ELSE IF charCodeAt(a, 1) # charCodeAt(b, 1) THEN charCodeAt(a, 1) < charCodeAt(b, 1)
  ELSE StrLess(SubSeq(a, 2, Len(a)), SubSeq(b, 2, Len(b)))

\* Object.keys(params).sort(): params is the sequence of its properties in
\* insertion order
RECURSIVE SortedKeys(_)
SortedKeys(params) ==
  IF Len(params) = 0 THEN <<>>
  ELSE LET least == CHOOSE i \in DOMAIN params :
                      \A j \in DOMAIN params : ~StrLess(params[j].name, params[i].name)
           rest == [k \in 1..(Len(params) - 1) |->
                      IF k < least THEN params[k] ELSE params[k + 1]]
       IN <<params[least]>> \o SortedKeys(rest)

\* JSON.stringify(params, Object.keys(params).sort()) of a flat params object
StringifyParams(params) ==
  LET sorted == SortedKeys(params)
  IN "{" \o Join([i \in DOMAIN sorted |->
                    "\"" \o sorted[i].name \o "\":" \o JsonValue(sorted[i])], ",")
         \o "}"

\* the components generateKey takes; "" stands for a collection slug, asset
\* id or item id left out, NoLocale for a locale left out
KeyComponentsOf(locale, collectionSlug, assetId, queryType, itemId, params) ==
  [params |-> params, locale |-> locale, collectionSlug |-> collectionSlug,
   assetId |-> assetId, queryType |-> queryType, itemId |-> itemId]

AssetQueryTypes == {"asset-url", "asset-download"}

generateKeyThrows(c) ==
  IF c.queryType \in AssetQueryTypes THEN c.assetId = "" ELSE c.collectionSlug = ""

\* the locale of components that name none (undefined)
NoLocale == "<undefined>"

\* generateKey on every kind of components, for the project of the client
generateKeyOf(c) ==
  LET locale == IF c.locale = NoLocale THEN DEFAULT_LOCALE ELSE c.locale
      base == IF c.queryType \in AssetQueryTypes
              THEN <<CACHE_KEY_PREFIX, ProjectId, locale, "asset", c.queryType, c.assetId>>
              ELSE <<CACHE_KEY_PREFIX, ProjectId, locale, c.collectionSlug, c.queryType>>
      withId == IF c.queryType \notin AssetQueryTypes /\ c.itemId # ""
                THEN Append(base, c.itemId) ELSE base
      keyParts == IF Len(c.params) > 0
                  THEN Append(withId, simpleHash(StringifyParams(c.params)))
                  ELSE withId
  IN Join(keyParts, ":")

\* a key derivation that leaves the locale segment out
generateKey_noLocale(projectId, locale, collectionSlug, queryType, itemId, limit) ==
  LET base == <<CACHE_KEY_PREFIX, projectId, collectionSlug, queryType>>
      withId == IF itemId # "" THEN Append(base, itemId) ELSE base
      keyParts == IF limit # Undefined
                  THEN Append(withId, simpleHash(ParamString(limit)))
                  ELSE withId
  IN Join(keyParts, ":")

(***************************************************************************)
(* BrowserCache.generateKey for collection operations.  An absent itemId   *)
(* is "", an absent limit is Undefined.                                    *)
(***************************************************************************)
\* a key that leaves the parameter hash out
generateKey_noParams(projectId, locale, collectionSlug, queryType, itemId, limit) ==
  LET base == <<CACHE_KEY_PREFIX, projectId, locale, collectionSlug, queryType>>
      keyParts == IF itemId # "" THEN Append(base, itemId) ELSE base
  IN Join(keyParts, ":")

generateKey(projectId, locale, collectionSlug, queryType, itemId, limit) ==
  LET base == <<CACHE_KEY_PREFIX, projectId, locale, collectionSlug, queryType>>
      withId == IF itemId # "" THEN Append(base, itemId) ELSE base
      keyParts == IF limit # Undefined
                  THEN Append(withId, simpleHash(ParamString(limit)))
                  ELSE withId
  IN Join(keyParts, ":")

(***************************************************************************)
(* Data.  A payload is null, one item, or an array of items; "undefined"   *)
(* is what reading a missing property yields.  An item carries the locale  *)
(* the server rendered it for.                                             *)
(***************************************************************************)
Item(id, locale, rev) == [locale |-> locale, id |-> id, rev |-> rev]
NullData == [shape |-> "null", items |-> <<>>]
UndefinedData == [shape |-> "undefined", items |-> <<>>]
SingleData(item) == [shape |-> "single", items |-> <<item>>]
ArrayData(list) == [shape |-> "array", items |-> list]

\* The listing endpoint's possible bodies for one locale.
ListResponses(locale) ==
  { <<>>, <<Item("a", locale, 1), Item("b", locale, 1)>> }

(***************************************************************************)
(* Stored strings, by the JSON they hold.  JSON.stringify of a CacheEntry  *)
(* gives an "entry"; the other kinds are strings some other writer left.   *)
(***************************************************************************)
Stringify(data, timestamp, entryTtl) ==
  [data |-> data, timestamp |-> timestamp, json |-> "entry", ttl |-> entryTtl]
NoItem == [data |-> UndefinedData, timestamp |-> 0, json |-> "absent", ttl |-> Undefined]
Corrupted(kind) == [data |-> UndefinedData, timestamp |-> 0, json |-> kind, ttl |-> Undefined]
CorruptKinds == {"garbage", "null", "object"}
ForeignKey == "theme"
ForeignValue == Corrupted("garbage")

VARIABLES
  enabled,        \* BrowserCache.enabled
  ttl,            \* BrowserCache.ttl
  adapter,        \* which StorageAdapter BrowserCache.storage is
  localStorage,   \* the browser's localStorage: key -> stored string
  memoryStorage,  \* MemoryStorageAdapter.storage
  storageFails,   \* the browser storage throws on every access
  now,            \* Date.now()
  clientLocale,   \* the client's current locale
  handles,        \* CollectionQuery objects the caller holds
  calls,          \* queries waiting for their transport request, oldest first
  last,           \* the query that completed in the last step, with what its
                  \* caller got (NoCall after any other step)
  started,        \* number of library calls made so far
  served,         \* history: last non-null fetched result per query
  nullServed,     \* history: queries whose last fetch found nothing
  written,        \* history: what cache.set was last asked to store per key
  lastGet,        \* result of the last direct cache.get
  results,        \* the CollectionResult instances the caller holds, and what
                  \* the last method called on one of them returned
  memoryKeys      \* the insertion order of MemoryStorageAdapter.storage, when
                  \* the cache writes to it

vars == <<enabled, ttl, adapter, localStorage, memoryStorage, storageFails, now,
          clientLocale, handles, calls, last, started, served, nullServed,
          written, lastGet, results, memoryKeys>>

(***************************************************************************)
(* StorageAdapter.  The browser-backed adapters catch every exception of   *)
(* the backend; the in-memory adapter cannot fail.                         *)
(***************************************************************************)
Store == IF adapter = "memory" THEN memoryStorage ELSE localStorage
Throws == adapter # "memory" /\ storageFails

getItem(store, key) ==
  IF Throws THEN NoItem
  ELSE IF key \in DOMAIN store THEN store[key] ELSE NoItem

setItem(store, key, value) ==
  IF Throws THEN store
  ELSE [k \in DOMAIN store \cup {key} |-> IF k = key THEN value ELSE store[k]]

removeItem(store, key) ==
  IF Throws THEN store
  ELSE [k \in DOMAIN store \ {key} |-> store[k]]

keys(store) == IF Throws THEN {} ELSE DOMAIN store

VmsPrefix == CACHE_KEY_PREFIX \o ":"

clear(store) ==
  IF Throws THEN store
  ELSE [k \in {x \in DOMAIN store : ~StartsWith(x, VmsPrefix)} |-> store[k]]

(***************************************************************************)
(* BrowserCache.get / set / remove / clear.  Each returns the value (if    *)
(* any) and the store it leaves.                                           *)
(***************************************************************************)
\* a get that expires an entry as soon as its age reaches the TTL
CacheGet_expiresAtTtl(store, key, t) ==
  IF ~enabled THEN [store |-> store, value |-> NullData]
  ELSE LET item == getItem(store, key)
       IN IF item.json = "absent" THEN [store |-> store, value |-> NullData]
          ELSE IF item.json \in {"garbage", "null"}
               THEN [store |-> removeItem(store, key), value |-> NullData]
          ELSE LET entryTtl == IF item.ttl # Undefined THEN item.ttl ELSE ttl
               IN IF item.json = "entry" /\ t - item.timestamp >= entryTtl
                  THEN [store |-> removeItem(store, key), value |-> NullData]
                  ELSE [store |-> store, value |-> item.data]

CacheGet(store, key, t) ==
  IF ~enabled THEN [store |-> store, value |-> NullData]
  ELSE LET item == getItem(store, key)
       IN IF item.json = "absent" THEN [store |-> store, value |-> NullData]
          ELSE IF item.json \in {"garbage", "null"}
               THEN [store |-> removeItem(store, key), value |-> NullData]
          ELSE LET entryTtl == IF item.ttl # Undefined THEN item.ttl ELSE ttl
               IN IF item.json = "entry" /\ t - item.timestamp > entryTtl
                  THEN [store |-> removeItem(store, key), value |-> NullData]
                  ELSE [store |-> store, value |-> item.data]

\* a set that writes even when the cache is disabled
CacheSet_always(store, key, data, ttlArg, t) ==
  setItem(store, key,
          Stringify(data, t, IF ttlArg # Undefined THEN ttlArg ELSE ttl))

CacheSet(store, key, data, ttlArg, t) ==
  IF ~enabled THEN store
  ELSE setItem(store, key,
               Stringify(data, t, IF ttlArg # Undefined THEN ttlArg ELSE ttl))

CacheRemove(store, key) == removeItem(store, key)

CacheClear(store) == clear(store)

(***************************************************************************)
(* CollectionQuery.                                                        *)
(***************************************************************************)
\* the store the cache works on becomes new.  (A cache that writes to the
\* in-memory adapter is modelled by memorySet and its companions, which
\* keep the insertion order as well.)
SetStore(new) ==
  IF adapter = "memory"
  THEN memoryStorage' = new /\ UNCHANGED localStorage
  ELSE localStorage' = new /\ UNCHANGED memoryStorage

\* a listing request that always asks for the default locale
ListEndpoint_defaultLocale(projectId, slug, locale) ==
  "/api/public/" \o projectId \o "/" \o slug \o "?locale=" \o DEFAULT_LOCALE

\* encodeURIComponent leaves a valid locale (letters, digits, '-') as it is
ListEndpoint(projectId, slug, locale) ==
  "/api/public/" \o projectId \o "/" \o slug \o "?locale=" \o locale

ItemEndpoint(projectId, slug, itemId, locale) ==
  "/api/public/" \o projectId \o "/" \o slug \o "/" \o itemId \o "?locale=" \o locale

EndsWith(s, p) == Len(p) <= Len(s) /\ SubSeq(s, Len(s) - Len(p) + 1, Len(s)) = p

\* the locale the server reads from a request
LocaleParam(req) == CHOOSE l \in Locales : EndsWith(req, "?locale=" \o l)

\* a key derived again, from the client's locale, when the request resolves
cacheKeyOf_live(q) ==
  generateKey(ProjectId, clientLocale, q.slug, q.op, q.itemId, q.limit)

\* the cacheKey constant a query computed before its request
cacheKeyOf(q) == q.key

\* a query that joins an identical request already in flight
IssuesRequest_shared(key, inflight) ==
  \A n \in 1..Len(inflight) : inflight[n].key # key

\* whether a query that missed the cache calls fetcher.get itself
IssuesRequest(key, inflight) == TRUE

\* a query that returns the fetched data without caching it
WriteBack_dropped(store, key, data, ttlArg, t) == store

\* the cache write of a query whose request resolved
WriteBack(store, key, data, ttlArg, t) == CacheSet(store, key, data, ttlArg, t)

\* items.slice(0, limit) when limit is given and positive
\* no client-side truncation
Slice_whole(allItems, limit) == allItems

Slice(allItems, limit) ==
  IF limit # Undefined /\ limit # 0 /\ limit > 0
  THEN SubSeq(allItems, 1, IF limit < Len(allItems) THEN limit ELSE Len(allItems))
  ELSE allItems

\* history: which queries count as identical
Ident(op, slug, locale, itemId, limit) ==
  [limit |-> limit, locale |-> locale, itemId |-> itemId, slug |-> slug, op |-> op]
IdentOf(q) == Ident(q.op, q.slug, q.locale, q.itemId, q.limit)
Forget(set, id) == {s \in set : s.ident # id}

NoCall ==
  [limit |-> Undefined, locale |-> "", itemId |-> "", key |-> "", slug |-> "",
   req |-> "", op |-> "", pc |-> "none", source |-> "", result |-> NullData,
   status |-> 0, wrote |-> FALSE, cold |-> FALSE, conc |-> FALSE,
   raced |-> FALSE, expectHit |-> FALSE, expectData |-> NullData,
   expectNull |-> FALSE, useCache |-> TRUE, invalidated |-> FALSE,
   overtaken |-> FALSE]

\* no CollectionResult held, no method called
NoResults ==
  [objects |-> <<>>, method |-> "", target |-> 0, arg |-> "", out |-> NullData]

NoGet ==
  [key |-> "", value |-> NullData, at |-> 0, had |-> FALSE, wAt |-> 0,
   wTtl |-> 0, wData |-> NullData, absentAfter |-> TRUE, found |-> "absent"]

TypeOK ==
  /\ enabled \in BOOLEAN
  /\ ttl \in {DEFAULT_TTL} \cup (ConfigTtls \ {0})
  /\ adapter \in {"localStorage", "sessionStorage", "memory"}
  /\ storageFails \in BOOLEAN
  /\ now \in 0..MaxNow
  /\ clientLocale \in Locales
  /\ handles \subseteq [locale : Locales, slug : Slugs]
  /\ Len(calls) <= MaxCalls
  /\ started \in 0..MaxCalls
  /\ last.pc \in {"none", "returned", "threw", "cleared"}
  /\ \A n \in 1..Len(calls) : calls[n].pc = "pending" /\ calls[n].req # ""

Init ==
  /\ enabled \in BOOLEAN
  /\ \E configTtl \in ConfigTtls :
       ttl = IF configTtl # 0 THEN configTtl ELSE DEFAULT_TTL
  /\ adapter = IF enabled THEN "localStorage" ELSE "memory"
  /\ localStorage = (ForeignKey :> ForeignValue)
  /\ memoryStorage = <<>>
  /\ storageFails = FALSE
  /\ now = 0
  /\ clientLocale = DEFAULT_LOCALE
  /\ handles = {}
  /\ calls = <<>>
  /\ last = NoCall
  /\ started = 0
  /\ served = {}
  /\ nullServed = {}
  /\ written = {}
  /\ lastGet = NoGet
  /\ results = NoResults
  /\ memoryKeys = <<>>

(***************************************************************************)
(* The client facade: locale state and collection().                       *)
(***************************************************************************)
setLocale(locale) ==
  /\ locale # clientLocale
  /\ clientLocale' = locale
  /\ calls' = [n \in 1..Len(calls) |-> [calls[n] EXCEPT !.raced = TRUE]]
  /\ last' = NoCall
  /\ UNCHANGED <<results, memoryKeys, enabled, ttl, adapter, localStorage, memoryStorage,
                 storageFails, now, handles, started, served, nullServed,
                 written, lastGet>>

collection(slug) ==
  /\ [locale |-> clientLocale, slug |-> slug] \notin handles
  /\ handles' = handles \cup {[locale |-> clientLocale, slug |-> slug]}
  /\ last' = NoCall
  /\ UNCHANGED <<results, memoryKeys, enabled, ttl, adapter, localStorage, memoryStorage,
                 storageFails, now, clientLocale, calls, started, served,
                 nullServed, written, lastGet>>

(***************************************************************************)
(* A query method up to its transport request: derive the key, read the    *)
(* cache, return on a hit, else issue the request.                         *)
(***************************************************************************)
\* many() passes params: { limit } to generateKey only when limit is truthy
ParamsOf(limit) == IF limit = 0 THEN Undefined ELSE limit

StartQuery(h, op, itemId, limit) ==
  LET key == generateKey(ProjectId, h.locale, h.slug, op, itemId, ParamsOf(limit))
      got == CacheGet(Store, key, now)
      hit == got.value.shape # "null"
      id == Ident(op, h.slug, h.locale, itemId, limit)
      exp == {s \in served : s.ident = id /\ now - s.at < ttl}
      expNull == {s \in nullServed : s.ident = id /\ now - s.at < NULL_RESULT_TTL}
      req == IF op = "item"
             THEN ItemEndpoint(ProjectId, h.slug, itemId, h.locale)
             ELSE ListEndpoint(ProjectId, h.slug, h.locale)
      same == {n \in 1..Len(calls) : IdentOf(calls[n]) = id}
      q == [limit |-> limit, locale |-> h.locale, itemId |-> itemId, key |-> key,
            slug |-> h.slug,
            req |-> IF ~hit /\ IssuesRequest(key, calls) THEN req ELSE "",
            op |-> op,
            pc |-> IF hit THEN "returned" ELSE "pending",
            source |-> IF hit THEN "cache" ELSE "network",
            result |-> got.value, status |-> 0, wrote |-> FALSE,
            cold |-> key \notin DOMAIN Store, conc |-> same # {},
            raced |-> FALSE,
            expectHit |-> exp # {},
            expectData |-> IF exp # {} /\ hit THEN (CHOOSE s \in exp : TRUE).data
                           ELSE NullData,
            expectNull |-> expNull # {}, useCache |-> TRUE,
            invalidated |-> FALSE, overtaken |-> FALSE]
  IN /\ started < MaxCalls
     /\ started' = started + 1
     /\ IF hit
        THEN last' = q /\ UNCHANGED calls
        ELSE /\ calls' = Append([n \in 1..Len(calls) |->
                                   IF n \in same THEN [calls[n] EXCEPT !.conc = TRUE]
                                   ELSE calls[n]], q)
             /\ last' = NoCall
     /\ SetStore(got.store)
     /\ UNCHANGED <<results, memoryKeys, enabled, ttl, adapter, storageFails, now, clientLocale,
                    handles, served, nullServed, written, lastGet>>

First(h) == StartQuery(h, "first", "", Undefined)
Many(h, limit) == StartQuery(h, "many", "", limit)
\* an all() with a cache entry and a query kind of its own
All_ownKey(h) == StartQuery(h, "all", "", Undefined)

\* all() is many() called without options
All(h) == Many(h, Undefined)
ItemQuery(h, itemId) == StartQuery(h, "item", itemId, Undefined)

(***************************************************************************)
(* A query method after its transport request.                             *)
(***************************************************************************)
Without(seq, i) == [n \in 1..(Len(seq) - 1) |-> IF n < i THEN seq[n] ELSE seq[n + 1]]

\* history: the pending queries whose key an invalidation covers are marked
Invalidate(inflight, covered) ==
  [n \in 1..Len(inflight) |->
     IF inflight[n].key \in covered THEN [inflight[n] EXCEPT !.invalidated = TRUE]
     ELSE inflight[n]]

\* history: the identical queries issued before query i are marked when
\* query i completes before them
Overtake(inflight, i) ==
  [n \in 1..Len(inflight) |->
     IF n < i /\ IdentOf(inflight[n]) = IdentOf(inflight[i])
     THEN [inflight[n] EXCEPT !.overtaken = TRUE]
     ELSE inflight[n]]

\* the request resolved: cache the data and return it
Fetched(i, status, data, ttlArg) ==
  LET q == calls[i]
      id == IdentOf(q)
      new == WriteBack(Store, cacheKeyOf(q), data, ttlArg, now)
  IN /\ SetStore(new)
     /\ calls' = Without(Overtake(calls, i), i)
     /\ last' = [q EXCEPT !.pc = "returned", !.status = status, !.result = data,
                          !.wrote = (cacheKeyOf(q) \in DOMAIN new
                                     /\ new[cacheKeyOf(q)].timestamp = now
                                     /\ new[cacheKeyOf(q)].data = data)]
     /\ served' = IF data.shape = "null" THEN Forget(served, id)
                  ELSE Forget(served, id) \cup {[data |-> data, ident |-> id, at |-> now]}
     /\ nullServed' = IF data.shape = "null"
                      THEN Forget(nullServed, id) \cup {[ident |-> id, at |-> now]}
                      ELSE Forget(nullServed, id)
     /\ UNCHANGED <<results, memoryKeys, enabled, ttl, adapter, storageFails, now, clientLocale,
                    handles, started, written, lastGet>>

\* the request failed and the error is rethrown
Rethrown(i, status) ==
  /\ calls' = Without(calls, i)
  /\ last' = [calls[i] EXCEPT !.pc = "threw", !.status = status]
  /\ UNCHANGED <<results, memoryKeys, enabled, ttl, adapter, localStorage, memoryStorage,
                 storageFails, now, clientLocale, handles, started, served,
                 nullServed, written, lastGet>>

Pending(i, ops) == i \in 1..Len(calls) /\ calls[i].req # "" /\ calls[i].op \in ops

FirstFetched(i, items) ==
  /\ Pending(i, {"first"})
  /\ items \in ListResponses(LocaleParam(calls[i].req))
  /\ IF Len(items) > 0
     THEN Fetched(i, 200, SingleData(items[1]), Undefined)
     ELSE Fetched(i, 200, NullData, NULL_RESULT_TTL)

\* a first() that, like item(), takes a 404 for "nothing there"
FirstFailed_swallows404(i, status) ==
  /\ Pending(i, {"first"})
  /\ IF status = 404
     THEN Fetched(i, status, NullData, NULL_RESULT_TTL)
     ELSE Rethrown(i, status)

FirstFailed(i, status) ==
  /\ Pending(i, {"first"})
  /\ Rethrown(i, status)

ManyFetched(i, allItems) ==
  /\ Pending(i, {"many"})
  /\ allItems \in ListResponses(LocaleParam(calls[i].req))
  /\ Fetched(i, 200, ArrayData(Slice(allItems, calls[i].limit)), Undefined)

ManyFailed(i, status) ==
  /\ Pending(i, {"many"})
  /\ Rethrown(i, status)

ItemFetched(i, rev) ==
  /\ Pending(i, {"item"})
  /\ Fetched(i, 200, SingleData(Item(calls[i].itemId, LocaleParam(calls[i].req), rev)),
             Undefined)

\* an item() that takes every transport failure for "not found"
ItemFailed_all404(i, status) ==
  /\ Pending(i, {"item"})
  /\ Fetched(i, status, NullData, NULL_RESULT_TTL)

ItemFailed(i, status) ==
  /\ Pending(i, {"item"})
  /\ IF status = 404
     THEN Fetched(i, status, NullData, NULL_RESULT_TTL)
     ELSE Rethrown(i, status)

(***************************************************************************)
(* Invalidation.                                                           *)
(***************************************************************************)
RECURSIVE RemoveAll(_, _)
RemoveAll(store, keySeq) ==
  IF keySeq = <<>> THEN store
  ELSE RemoveAll(CacheRemove(store, Head(keySeq)), Tail(keySeq))

\* CollectionQuery.clearCache: the four base keys of this collection and locale
BaseKeys(h) ==
  [n \in 1..4 |->
     "vms:" \o ProjectId \o ":" \o h.locale \o ":" \o h.slug \o ":"
       \o <<"first", "many", "all", "item">>[n]]

collectionClearCache(h) ==
  /\ SetStore(RemoveAll(Store, BaseKeys(h)))
  /\ served' = {}
  /\ nullServed' = {}
  /\ written' = {}
  /\ last' = NoCall
  /\ calls' = Invalidate(calls, {BaseKeys(h)[n] : n \in 1..4})
  /\ UNCHANGED <<results, memoryKeys, enabled, ttl, adapter, storageFails, now, clientLocale,
                 handles, started, lastGet>>

\* VibeCMSClient.clearCache: BrowserCache.clear
clearCache ==
  /\ SetStore(CacheClear(Store))
  /\ served' = {}
  /\ nullServed' = {}
  /\ written' = {}
  /\ last' = NoCall
  /\ calls' = Invalidate(calls, {calls[n].key : n \in 1..Len(calls)})
  /\ UNCHANGED <<results, memoryKeys, enabled, ttl, adapter, storageFails, now, clientLocale,
                 handles, started, lastGet>>

\* a prefix that does not close the locale segment
localePrefix_open(projectId, locale) ==
  Join(<<CACHE_KEY_PREFIX, projectId, locale>>, ":")

localePrefix(projectId, locale) ==
  Join(<<CACHE_KEY_PREFIX, projectId, locale>>, ":") \o ":"

\* BrowserCache.clearLocaleCache; last records the call and whether it
\* removed anything
clearLocaleCache(projectId, locale) ==
  LET localeKeys == IF enabled
                    THEN {k \in keys(Store) : StartsWith(k, localePrefix(projectId, locale))}
                    ELSE {}
  IN /\ SetStore([k \in DOMAIN Store \ localeKeys |-> Store[k]])
     /\ written' = {w \in written : w.key \notin localeKeys}
     /\ served' = {}
     /\ nullServed' = {}
     /\ last' = [NoCall EXCEPT !.locale = locale, !.key = projectId,
                               !.pc = "cleared", !.wrote = (localeKeys # {})]
     /\ calls' = Invalidate(calls, {calls[n].key : n \in {m \in 1..Len(calls) :
                    StartsWith(calls[m].key, localePrefix(projectId, locale))}})
     /\ UNCHANGED <<results, memoryKeys, enabled, ttl, adapter, storageFails, now, clientLocale,
                    handles, started, lastGet>>

(***************************************************************************)
(* AssetManager.downloadAsset.  Binary data is a sequence of bytes; the    *)
(* cached copy carries it as base64 text.                                  *)
(***************************************************************************)
B64 == "ABCDEFGHIJKLMNOPQRSTUVWXYZabcdefghijklmnopqrstuvwxyz0123456789+/"
B64Char(n) == SubSeq(B64, n + 1, n + 1)
InB64(ch) == \E n \in 0..63 : B64Char(n) = ch
B64Index(ch) == CHOOSE n \in 0..63 : B64Char(n) = ch

RECURSIVE btoa(_)
btoa(bytes) ==
  IF Len(bytes) = 0 THEN ""
  ELSE LET n == Len(bytes)
           b2 == IF n >= 2 THEN bytes[2] ELSE 0
           b3 == IF n >= 3 THEN bytes[3] ELSE 0
           v == bytes[1] * 65536 + b2 * 256 + b3
       IN B64Char(v \div 262144) \o B64Char((v \div 4096) % 64)
          \o (IF n >= 2 THEN B64Char((v \div 64) % 64) ELSE "=")
          \o (IF n >= 3 THEN B64Char(v % 64) ELSE "=")
          \o btoa(SubSeq(bytes, 4, n))

\* an encoding that keeps seven bits of every byte
arrayBufferToBase64_ascii(buffer) == btoa([i \in DOMAIN buffer |-> buffer[i] % 128])

arrayBufferToBase64(buffer) == btoa(buffer)

\* atob: padding is dropped from a text whose length is a multiple of four
StripPad(text) ==
  LET n == Len(text)
  IN IF n > 0 /\ n % 4 = 0 /\ SubSeq(text, n, n) = "="
     THEN IF SubSeq(text, n - 1, n - 1) = "=" THEN SubSeq(text, 1, n - 2)
          ELSE SubSeq(text, 1, n - 1)
     ELSE text

\* atob throws InvalidCharacterError
atobThrows(text) ==
  LET t == StripPad(text)
  IN Len(t) % 4 = 1 \/ \E i \in 1..Len(t) : ~InB64(SubSeq(t, i, i))

RECURSIVE DecodeGroups(_)
DecodeGroups(t) ==
  IF Len(t) < 2 THEN <<>>
  ELSE LET n == Len(t)
           v == B64Index(SubSeq(t, 1, 1)) * 262144 + B64Index(SubSeq(t, 2, 2)) * 4096
                + (IF n >= 3 THEN B64Index(SubSeq(t, 3, 3)) * 64 ELSE 0)
                + (IF n >= 4 THEN B64Index(SubSeq(t, 4, 4)) ELSE 0)
       IN <<v \div 65536>>
          \o (IF n >= 3 THEN <<(v \div 256) % 256>> ELSE <<>>)
          \o (IF n >= 4 THEN <<v % 256>> ELSE <<>>)
          \o DecodeGroups(SubSeq(t, 5, n))

atob(text) == DecodeGroups(StripPad(text))

base64ToArrayBuffer(base64) == atob(base64)

\* AssetData; its data is an ArrayBuffer (bytes) or, in the cached copy, a
\* string (text)
AssetRecord(assetId, type, text, bytes, contentType, contentLength, fileName) ==
  [type |-> type, id |-> assetId, bytes |-> bytes, text |-> text,
   contentType |-> contentType, contentLength |-> contentLength,
   fileName |-> fileName]

\* A response of the asset endpoint: its body and its content-type,
\* content-length and content-disposition file name ("" and 0: header absent).
AssetResponses ==
  {<<(<<104, 105>>), "image/png", 2, "logo.png">>,
   <<(<<104>>), "", 0, "">>,
   <<(<<>>), "image/png", 0, "">>,
   <<(<<255, 0, 128>>), "image/png", 3, "">>}

\* assetData built from a response
AssetDataOf(assetId, response) ==
  [shape |-> "asset",
   items |-> <<AssetRecord(assetId, "ArrayBuffer", "", response[1],
                           IF response[2] # "" THEN response[2]
                           ELSE "application/octet-stream",
                           IF response[3] # 0 THEN response[3] ELSE Len(response[1]),
                           response[4])>>]

\* { ...assetData, data: arrayBufferToBase64(data) }
CacheableData(assetData) ==
  [shape |-> "asset",
   items |-> <<[assetData.items[1] EXCEPT !.type = "string",
                                          !.text = arrayBufferToBase64(assetData.items[1].bytes),
                                          !.bytes = <<>>]>>]

\* { ...cachedData, data: base64ToArrayBuffer(cachedData.data) }
DecodedData(cachedData) ==
  [shape |-> "asset",
   items |-> <<[cachedData.items[1] EXCEPT !.type = "ArrayBuffer",
                                           !.bytes = base64ToArrayBuffer(cachedData.items[1].text),
                                           !.text = ""]>>]

StoredText(assetId, text) ==
  [shape |-> "asset",
   items |-> <<AssetRecord(assetId, "string", text, <<>>, "image/png", 2, "")>>]

AssetIds == {"logo"}
\* texts atob rejects: a character outside the alphabet, a length of 4n + 1
BrokenTexts == {"!!!!", "aGkgh"}

AssetEndpoint(projectId, assetId) ==
  Join(<<"/api/assets", projectId, assetId>>, "/") \o "?"

\* the key of a download without url options, by a manager bound to locale
AssetKey(locale, assetId) ==
  generateKeyOf(KeyComponentsOf(locale, "", assetId, "asset-download", "", <<>>))

\* ASSET_ID_PATTERN: ^[a-zA-Z0-9_-]+$
AssetIdChars == "abcdefghijklmnopqrstuvwxyzABCDEFGHIJKLMNOPQRSTUVWXYZ0123456789_-"
MatchesAssetIdPattern(assetId) ==
  /\ Len(assetId) > 0
  /\ \A i \in 1..Len(assetId) :
       \E j \in 1..Len(AssetIdChars) :
         SubSeq(AssetIdChars, j, j) = SubSeq(assetId, i, i)

\* the two checks of the asset id that open generateAssetUrl and downloadAsset
AssetIdThrows(assetId) == assetId = "" \/ ~MatchesAssetIdPattern(assetId)

\* `options.width !== undefined` and `options.width <= 0`, likewise height
SizeThrows(width, height) ==
  \/ width # Undefined /\ width <= 0
  \/ height # Undefined /\ height <= 0

\* URLSearchParams.toString() of the variant, width and height given, for
\* variants without characters to escape
QueryString(variant, width, height) ==
  Join(SelectSeq(<<IF variant # "" THEN "variant=" \o variant ELSE "",
                   IF width # Undefined THEN "width=" \o ToString(width) ELSE "",
                   IF height # Undefined THEN "height=" \o ToString(height) ELSE "">>,
                 LAMBDA part : part # ""),
       "&")

\* urlOptions, the params of the cache key: the width and height given
UrlOptions(width, height) ==
  (IF width # Undefined THEN <<NumParam("width", width)>> ELSE <<>>)
  \o (IF height # Undefined THEN <<NumParam("height", height)>> ELSE <<>>)

\* HttpFetcher's constructor: one trailing slash of the base URL is dropped
FetcherBaseUrl(baseUrl) ==
  IF Len(baseUrl) > 0 /\ SubSeq(baseUrl, Len(baseUrl), Len(baseUrl)) = "/"
  THEN SubSeq(baseUrl, 1, Len(baseUrl) - 1)
  ELSE baseUrl

\* a url that carries the manager's locale as a query parameter
generateAssetUrl_localised(baseUrl, projectId, locale, assetId, variant, width, height) ==
  Join(<<FetcherBaseUrl(baseUrl), "api", "assets", projectId, assetId>>, "/")
    \o "?locale=" \o locale

\* generateAssetUrl by a manager of projectId bound to locale over a fetcher
\* constructed with baseUrl, for inputs it does not reject
generateAssetUrl(baseUrl, projectId, locale, assetId, variant, width, height) ==
  LET url == Join(<<FetcherBaseUrl(baseUrl), "api", "assets", projectId, assetId>>, "/")
      params == QueryString(variant, width, height)
  IN IF params # "" THEN url \o "?" \o params ELSE url

BaseUrls == {"https://api.test", "https://api.test/"}
Variants == {"", "thumb"}

\* asset_url on a client constructed with baseUrl, whose locale is
\* clientLocale: the call ends at once, with the url in req or with an error
assetUrl(baseUrl, assetId, variant, width, height) ==
  LET throws == AssetIdThrows(assetId) \/ SizeThrows(width, height)
  IN /\ last' = [NoCall EXCEPT
                   !.limit = width, !.locale = clientLocale, !.itemId = assetId,
                   !.req = IF throws THEN ""
                           ELSE generateAssetUrl(baseUrl, ProjectId, clientLocale,
                                                 assetId, variant, width, height),
                   !.op = "asset-url",
                   !.pc = IF throws THEN "threw" ELSE "returned",
                   !.source = IF throws THEN "validation" ELSE ""]
     /\ UNCHANGED <<results, memoryKeys, enabled, ttl, adapter, localStorage, memoryStorage,
                    storageFails, now, clientLocale, handles, calls, started,
                    served, nullServed, written, lastGet>>

\* a cache key derived whatever useCache says
DownloadKey_always(locale, assetId, useCache, params) ==
  generateKeyOf(KeyComponentsOf(locale, "", assetId, "asset-download", "", params))

\* cacheKey: null ("") when useCache is false
DownloadKey(locale, assetId, useCache, params) ==
  IF useCache
  THEN generateKeyOf(KeyComponentsOf(locale, "", assetId, "asset-download", "", params))
  ELSE ""

\* `if (cachedData)`
Truthy(value) == value.shape \notin {"null", "undefined"}

\* downloadAsset with width and height options by a manager bound to locale,
\* up to its request or, on a cached copy or a rejected input, to its end.
\* The limit field of the call holds the width; lastGet records the cache
\* read if there was one.
downloadAssetOpts(locale, assetId, useCache, width, height) ==
  LET invalidId == AssetIdThrows(assetId)
      key == IF invalidId THEN ""
             ELSE DownloadKey(locale, assetId, useCache, UrlOptions(width, height))
      reads == key # "" /\ useCache
      got == IF reads THEN CacheGet(Store, key, now)
             ELSE [store |-> Store, value |-> NullData]
      hit == reads /\ Truthy(got.value)
      rec == got.value.items[1]
      isText == hit /\ rec.type = "string"
      throws == isText /\ atobThrows(rec.text)
      result == IF isText /\ ~throws
                THEN DecodedData(got.value)
                ELSE got.value
      rejected == invalidId \/ (~hit /\ SizeThrows(width, height))
      id == Ident("asset-download", "", locale, assetId, width)
      q == [limit |-> width, locale |-> locale, itemId |-> assetId, key |-> key,
            slug |-> "",
            req |-> IF hit \/ rejected THEN ""
                    ELSE AssetEndpoint(ProjectId, assetId) \o QueryString("", width, height),
            op |-> "asset-download",
            pc |-> IF throws \/ rejected THEN "threw"
                   ELSE IF hit THEN "returned" ELSE "pending",
            source |-> IF rejected THEN "validation"
                       ELSE IF hit THEN "cache" ELSE "network",
            result |-> IF throws \/ rejected THEN NullData ELSE result,
            status |-> 0, wrote |-> FALSE,
            cold |-> key \notin DOMAIN Store, conc |-> FALSE, raced |-> FALSE,
            expectHit |-> \E x \in served : x.ident = id,
            expectData |-> NullData, expectNull |-> FALSE, useCache |-> useCache,
            invalidated |-> FALSE, overtaken |-> FALSE]
  IN /\ started < MaxCalls
     /\ started' = started + 1
     /\ IF hit \/ rejected
        THEN last' = q /\ UNCHANGED calls
        ELSE calls' = Append(calls, q) /\ last' = NoCall
     /\ SetStore(got.store)
     /\ lastGet' = IF reads
                   THEN [key |-> key, value |-> got.value, at |-> now, had |-> FALSE,
                         wAt |-> 0, wTtl |-> 0, wData |-> NullData,
                         absentAfter |-> key \notin DOMAIN got.store,
                         found |-> getItem(Store, key).json]
                   ELSE lastGet
     /\ UNCHANGED <<results, memoryKeys, enabled, ttl, adapter, storageFails, now, clientLocale,
                    handles, served, nullServed, written>>

\* downloadAsset without url options
downloadAsset(locale, assetId, useCache) ==
  downloadAssetOpts(locale, assetId, useCache, Undefined, Undefined)

\* the asset request succeeded: the base64 copy is cached, the binary returned
AssetFetched(i, response) ==
  /\ Pending(i, {"asset-download"})
  /\ LET q == calls[i]
         assetData == AssetDataOf(q.itemId, response)
         new == IF q.key # ""
                THEN CacheSet(Store, q.key, CacheableData(assetData), Undefined, now)
                ELSE Store
     IN /\ SetStore(new)
        /\ last' = [q EXCEPT !.pc = "returned", !.status = 200,
                             !.result = assetData,
                             !.wrote = (q.key \in DOMAIN new)]
        /\ served' = IF q.key \in DOMAIN new
                     THEN Forget(served, IdentOf(q)) \cup
                            {[data |-> assetData, ident |-> IdentOf(q), at |-> now]}
                     ELSE served
  /\ calls' = Without(calls, i)
  /\ UNCHANGED <<results, memoryKeys, enabled, ttl, adapter, storageFails, now, clientLocale,
                 handles, started, nullServed, written, lastGet>>

\* makeAssetRequest threw: the error is rethrown
AssetFailed(i, status) ==
  /\ Pending(i, {"asset-download"})
  /\ Rethrown(i, status)

\* a cached copy whose text is not base64, left under an asset key
ForeignAsset(locale, assetId, text) ==
  /\ AssetKey(locale, assetId) \notin DOMAIN localStorage
  /\ localStorage' = (AssetKey(locale, assetId) :> Stringify(StoredText(assetId, text), now, ttl))
                       @@ localStorage
  /\ last' = NoCall
  /\ UNCHANGED <<results, memoryKeys, enabled, ttl, adapter, memoryStorage, storageFails, now,
                 clientLocale, handles, calls, started, served, nullServed,
                 written, lastGet>>

\* getAssetCacheKeys of a manager bound to locale
assetPrefix(projectId, locale) ==
  Join(<<CACHE_KEY_PREFIX, projectId, locale, "asset">>, ":") \o ":"

getAssetCacheKeys(locale) ==
  {k \in keys(Store) : StartsWith(k, assetPrefix(ProjectId, locale))}

\* AssetManager.clearAssetCache of a manager bound to locale; served starts
\* anew, as the record of what was fetched since the last clear
clearAssetCache(locale) ==
  /\ SetStore([k \in DOMAIN Store \ getAssetCacheKeys(locale) |-> Store[k]])
  /\ served' = {}
  /\ nullServed' = {}
  /\ last' = [NoCall EXCEPT !.locale = locale, !.op = "clearAssetCache",
                            !.pc = "cleared",
                            !.wrote = (getAssetCacheKeys(locale) # {})]
  /\ UNCHANGED <<results, memoryKeys, enabled, ttl, adapter, storageFails, now, clientLocale,
                 handles, calls, started, written, lastGet>>

(***************************************************************************)
(* The clock.                                                              *)
(***************************************************************************)
Tick ==
  /\ now < MaxNow
  /\ now' = now + 1
  /\ last' = NoCall
  /\ UNCHANGED <<results, memoryKeys, enabled, ttl, adapter, localStorage, memoryStorage,
                 storageFails, clientLocale, handles, calls, started,
                 served, nullServed, written, lastGet>>

(***************************************************************************)
(* BrowserCache used directly.                                             *)
(***************************************************************************)
DirectKeys == {"test-key", "vms:test"}
DirectData == {NullData, SingleData(Item("a", "en", 1))}
ForgetKey(set, key) == {w \in set : w.key # key}

cacheSet(key, data, ttlArg) ==
  /\ started < MaxCalls
  /\ started' = started + 1
  /\ SetStore(CacheSet(Store, key, data, ttlArg, now))
  /\ written' = ForgetKey(written, key) \cup
       {[data |-> data, ttl |-> IF ttlArg # Undefined THEN ttlArg ELSE ttl,
         key |-> key, at |-> now]}
  /\ last' = NoCall
  /\ UNCHANGED <<results, memoryKeys, enabled, ttl, adapter, storageFails, now, clientLocale,
                 handles, calls, served, nullServed, lastGet>>

cacheGet(key) ==
  LET got == CacheGet(Store, key, now)
      w == {x \in written : x.key = key}
      e == IF w # {} THEN CHOOSE x \in w : TRUE
           ELSE [data |-> NullData, ttl |-> 0, key |-> key, at |-> 0]
  IN /\ started < MaxCalls
     /\ started' = started + 1
     /\ SetStore(got.store)
     /\ lastGet' = [key |-> key, value |-> got.value, at |-> now, had |-> w # {},
                    wAt |-> e.at, wTtl |-> e.ttl, wData |-> e.data,
                    absentAfter |-> key \notin DOMAIN got.store,
                    found |-> getItem(Store, key).json]
     /\ last' = NoCall
     /\ UNCHANGED <<results, memoryKeys, enabled, ttl, adapter, storageFails, now, clientLocale,
                    handles, calls, served, nullServed, written>>

cacheRemove(key) ==
  /\ key \in DOMAIN Store
  /\ SetStore(CacheRemove(Store, key))
  /\ written' = ForgetKey(written, key)
  /\ last' = NoCall
  /\ UNCHANGED <<results, memoryKeys, enabled, ttl, adapter, storageFails, now, clientLocale,
                 handles, calls, started, served, nullServed, lastGet>>

\* a clear that empties the storage it shares
cacheClear_everything ==
  /\ SetStore(<<>>)
  /\ written' = {}
  /\ served' = {}
  /\ nullServed' = {}
  /\ last' = [NoCall EXCEPT !.op = "clear", !.pc = "cleared", !.wrote = TRUE]
  /\ UNCHANGED <<results, memoryKeys, enabled, ttl, adapter, storageFails, now, clientLocale,
                 handles, calls, started, lastGet>>

\* BrowserCache.clear called directly; last records the call and whether it
\* removed anything
cacheClear ==
  /\ SetStore(CacheClear(Store))
  /\ written' = {w \in written : w.key \in DOMAIN CacheClear(Store)}
  /\ served' = {}
  /\ nullServed' = {}
  /\ last' = [NoCall EXCEPT !.op = "clear", !.pc = "cleared",
                            !.wrote = (DOMAIN CacheClear(Store) # DOMAIN Store)]
  /\ UNCHANGED <<results, memoryKeys, enabled, ttl, adapter, storageFails, now, clientLocale,
                 handles, calls, started, lastGet>>

\* the store after get(key) was awaited on each key of keySet in turn
RECURSIVE GetEach(_, _, _)
GetEach(store, keySet, t) ==
  IF keySet = {} THEN store
  ELSE LET key == CHOOSE k \in keySet : TRUE
       IN GetEach(CacheGet(store, key, t).store, keySet \ {key}, t)

\* every stored key, whatever its prefix
cleanupKeys_unfiltered(store) == keys(store)

\* vmsKeys of cleanup
cleanupKeys(store) == {key \in keys(store) : StartsWith(key, VmsPrefix)}

\* BrowserCache.cleanup
cleanup ==
  LET after == IF ~enabled THEN Store
               ELSE GetEach(Store, cleanupKeys(Store), now)
  IN /\ SetStore(after)
     /\ written' = {w \in written : w.key \in DOMAIN after}
     /\ last' = [NoCall EXCEPT !.op = "cleanup", !.pc = "cleared",
                               !.wrote = (DOMAIN after # DOMAIN Store)]
     /\ UNCHANGED <<results, memoryKeys, enabled, ttl, adapter, storageFails, now, clientLocale,
                    handles, calls, started, served, nullServed, lastGet>>

(***************************************************************************)
(* MemoryStorageAdapter.  Its Map keeps the keys in the order in which     *)
(* they were first inserted.  memoryKeys is that order: a slot is one key  *)
(* of memoryStorage, or a run of n entries stored under keys that are not  *)
(* followed one by one (all of them written through the cache, under the   *)
(* vms: prefix).                                                           *)
(***************************************************************************)
MEMORY_LIMIT == 1000
EVICT_COUNT == 100

Slot(key) == [n |-> 1, key |-> key]
Run(n) == [n |-> n, key |-> ""]

\* this.storage.size
RECURSIVE MapSize(_)
MapSize(order) ==
  IF order = <<>> THEN 0 ELSE Head(order).n + MapSize(Tail(order))

MapKeys(order) == {order[i].key : i \in 1..Len(order)} \ {""}

\* the order after the first k keys were deleted
RECURSIVE Evict(_, _)
Evict(order, k) ==
  IF k = 0 \/ order = <<>> THEN order
  ELSE IF Head(order).n <= k THEN Evict(Tail(order), k - Head(order).n)
  ELSE <<Run(Head(order).n - k)>> \o Tail(order)

\* the order after the keys outside dom were deleted
Prune(order, dom) ==
  SelectSeq(order, LAMBDA slot : slot.key = "" \/ slot.key \in dom)

\* a limit test that fires at the size of one eviction
StorageFull_atEvictCount(order) == MapSize(order) >= EVICT_COUNT

\* `this.storage.size >= 1000`
StorageFull(order) == MapSize(order) >= MEMORY_LIMIT

\* MemoryStorageAdapter.setItem: the order it leaves
memorySetItemKeys(order, key) ==
  LET kept == IF StorageFull(order) THEN Evict(order, EVICT_COUNT) ELSE order
  IN IF key \in MapKeys(kept) THEN kept ELSE Append(kept, Slot(key))

\* MemoryStorageAdapter.setItem: the values it leaves
memorySetItem(order, store, key, value) ==
  LET kept == IF StorageFull(order)
              THEN MapKeys(Evict(order, EVICT_COUNT)) ELSE DOMAIN store
  IN [k \in (DOMAIN store \cap kept) \cup {key} |->
        IF k = key THEN value ELSE store[k]]

\* MemoryStorageAdapter.clear: the order it leaves
memoryClearKeys(order) ==
  SelectSeq(order, LAMBDA slot : slot.key # "" /\ ~StartsWith(slot.key, VmsPrefix))

FallbackKeys == {"vms:test:key1", "vms:test:key2", "test-key"}
OldestKey == "vms:test:key1"

\* BrowserCache.set over the in-memory adapter; last records the call,
\* whether the adapter found its limit reached, and whether the key was new
memorySet(key, ttlArg) ==
  /\ adapter = "memory" /\ enabled
  /\ started < MaxCalls
  /\ started' = started + 1
  /\ memoryStorage' =
       memorySetItem(memoryKeys, memoryStorage, key,
                     Stringify(SingleData(Item("a", "en", 1)), now,
                               IF ttlArg # Undefined THEN ttlArg ELSE ttl))
  /\ memoryKeys' = memorySetItemKeys(memoryKeys, key)
  /\ last' = [NoCall EXCEPT !.key = key, !.op = "set", !.pc = "cleared",
                            !.wrote = StorageFull(memoryKeys),
                            !.cold = (key \notin DOMAIN memoryStorage)]
  /\ lastGet' = NoGet
  /\ UNCHANGED <<results, enabled, ttl, adapter, localStorage, storageFails,
                 now, clientLocale, handles, calls, served, nullServed,
                 written>>

\* BrowserCache.get over the in-memory adapter
memoryGet(key) ==
  LET got == CacheGet(memoryStorage, key, now)
  IN /\ adapter = "memory" /\ enabled
     /\ started < MaxCalls
     /\ started' = started + 1
     /\ memoryStorage' = got.store
     /\ memoryKeys' = Prune(memoryKeys, DOMAIN got.store)
     /\ last' = [NoCall EXCEPT !.key = key, !.op = "get", !.pc = "cleared"]
     /\ lastGet' = [NoGet EXCEPT !.key = key, !.value = got.value, !.at = now,
                                 !.absentAfter = (key \notin DOMAIN got.store),
                                 !.found = getItem(memoryStorage, key).json]
     /\ UNCHANGED <<results, enabled, ttl, adapter, localStorage, storageFails,
                    now, clientLocale, handles, calls, served, nullServed,
                    written>>

\* BrowserCache.remove over the in-memory adapter
memoryRemove(key) ==
  /\ adapter = "memory"
  /\ key \in DOMAIN memoryStorage
  /\ memoryStorage' = CacheRemove(memoryStorage, key)
  /\ memoryKeys' = Prune(memoryKeys, DOMAIN memoryStorage \ {key})
  /\ last' = [NoCall EXCEPT !.key = key, !.op = "remove", !.pc = "cleared"]
  /\ lastGet' = NoGet
  /\ UNCHANGED <<results, enabled, ttl, adapter, localStorage, storageFails,
                 now, clientLocale, handles, calls, started, served,
                 nullServed, written>>

\* BrowserCache.clear over the in-memory adapter
memoryClear ==
  /\ adapter = "memory"
  /\ memoryKeys # <<>>
  /\ memoryStorage' = CacheClear(memoryStorage)
  /\ memoryKeys' = memoryClearKeys(memoryKeys)
  /\ last' = [NoCall EXCEPT !.op = "clear", !.pc = "cleared"]
  /\ lastGet' = NoGet
  /\ UNCHANGED <<results, enabled, ttl, adapter, localStorage, storageFails,
                 now, clientLocale, handles, calls, started, served,
                 nullServed, written>>

\* a cache that fell back to the in-memory adapter: new, or after OldestKey
\* and then 998 or 999 other keys were set at time 0
InitFallback ==
  /\ enabled = TRUE
  /\ \E configTtl \in ConfigTtls :
       ttl = IF configTtl # 0 THEN configTtl ELSE DEFAULT_TTL
  /\ adapter = "memory"
  /\ localStorage = (ForeignKey :> ForeignValue)
  /\ \E others \in {0, MEMORY_LIMIT - 2, MEMORY_LIMIT - 1} :
       /\ memoryKeys = IF others = 0 THEN <<>>
                       ELSE <<Slot(OldestKey), Run(others)>>
       /\ memoryStorage =
            IF others = 0 THEN <<>>
            ELSE (OldestKey :> Stringify(SingleData(Item("a", "en", 1)), 0, ttl))
  /\ storageFails = FALSE
  /\ now = 0
  /\ clientLocale = DEFAULT_LOCALE
  /\ handles = {}
  /\ calls = <<>>
  /\ last = NoCall
  /\ started = 0
  /\ served = {}
  /\ nullServed = {}
  /\ written = {}
  /\ lastGet = NoGet
  /\ results = NoResults

NextFallback ==
  \/ \E key \in FallbackKeys, ttlArg \in TtlOverrides : memorySet(key, ttlArg)
  \/ \E key \in FallbackKeys : memoryGet(key)
  \/ \E key \in FallbackKeys : memoryRemove(key)
  \/ memoryClear
  \/ Tick

SpecFallback == InitFallback /\ [][NextFallback]_vars

\* what a web storage object can be when a cache is constructed: usable,
\* not defined, or defined but throwing on the test write
StorageStates == {"ok", "undefined", "throws"}
ConfigStorages == {"localStorage", "sessionStorage"}

\* the key of the constructor's test write
ProbeKey == "__vms_test__"

\* the adapter BrowserCache's constructor ends with
BrowserCacheAdapter(configEnabled, configStorage, localState, sessionState) ==
  IF ~configEnabled THEN "memory"
  ELSE IF configStorage = "sessionStorage" /\ sessionState # "undefined"
       THEN IF sessionState = "throws" THEN "memory" ELSE "sessionStorage"
  ELSE IF localState # "undefined"
       THEN IF localState = "throws" THEN "memory" ELSE "localStorage"
  ELSE "memory"

\* new BrowserCache(config) in an environment with the two web storages in
\* the given states: the cache modelled from here on is the new one, and
\* last keeps the storage asked for (source) and the two states met (req).
\* The storage it settles on has had ProbeKey set and removed.
newBrowserCache(configEnabled, configStorage, configTtl, localState, sessionState) ==
  /\ enabled' = configEnabled
  /\ ttl' = IF configTtl # 0 THEN configTtl ELSE DEFAULT_TTL
  /\ adapter' = BrowserCacheAdapter(configEnabled, configStorage, localState,
                                    sessionState)
  /\ localStorage' =
       IF BrowserCacheAdapter(configEnabled, configStorage, localState,
                              sessionState) = "memory"
       THEN localStorage
       ELSE [k \in DOMAIN localStorage \ {ProbeKey} |-> localStorage[k]]
  /\ memoryStorage' = <<>>
  /\ storageFails' = (localState = "throws")
  /\ last' = [NoCall EXCEPT !.req = localState \o "," \o sessionState,
                            !.op = "construct", !.pc = "returned",
                            !.source = configStorage]
  /\ served' = {}
  /\ nullServed' = {}
  /\ written' = {}
  /\ lastGet' = NoGet
  /\ UNCHANGED <<results, memoryKeys, now, clientLocale, handles, calls, started>>

(***************************************************************************)
(* The environment of the browser storage: it may start or stop throwing,  *)
(* and another writer may leave a string that is no cache entry.           *)
(***************************************************************************)
QueryKeys ==
  {generateKey(ProjectId, l, s, "first", "", Undefined) : l \in Locales, s \in Slugs}

StorageFault ==
  /\ storageFails' = ~storageFails
  /\ last' = NoCall
  /\ UNCHANGED <<results, memoryKeys, enabled, ttl, adapter, localStorage, memoryStorage, now,
                 clientLocale, handles, calls, started, served,
                 nullServed, written, lastGet>>

ForeignWrite(key, kind) ==
  /\ key \notin DOMAIN localStorage
  /\ localStorage' = (key :> Corrupted(kind)) @@ localStorage
  /\ served' = {}
  /\ nullServed' = {}
  /\ last' = NoCall
  /\ UNCHANGED <<results, memoryKeys, enabled, ttl, adapter, memoryStorage, storageFails, now,
                 clientLocale, handles, calls, started, written, lastGet>>

(***************************************************************************)
(* Specifications.                                                         *)
(***************************************************************************)
Queries ==
  \E h \in handles :
    \/ First(h)
    \/ \E limit \in Limits : Many(h, limit)
    \/ All(h)
    \/ \E itemId \in ItemIds : ItemQuery(h, itemId)

Responses ==
  \E i \in 1..MaxCalls :
    \/ \E l \in Locales : \E items \in ListResponses(l) : FirstFetched(i, items)
    \/ \E status \in ErrorStatuses : FirstFailed(i, status)
    \/ \E l \in Locales : \E items \in ListResponses(l) : ManyFetched(i, items)
    \/ \E status \in ErrorStatuses : ManyFailed(i, status)
    \/ \E rev \in Revs : ItemFetched(i, rev)
    \/ \E status \in ErrorStatuses : ItemFailed(i, status)

\* one locale: queries of every shape, the clock, invalidation
Next ==
  \/ \E slug \in Slugs : collection(slug)
  \/ Queries
  \/ Responses
  \/ \E h \in handles : collectionClearCache(h)
  \/ clearCache
  \/ Tick

\* a client created with cache: { enabled: true }, on a working localStorage
InitEnabled == Init /\ enabled
Spec == InitEnabled /\ [][Next]_vars

\* the client's locale changes between and during queries
NextLocale ==
  \/ \E locale \in Locales : setLocale(locale)
  \/ \E slug \in Slugs : collection(slug)
  \/ Queries
  \/ Responses

InitShortTtl == InitEnabled /\ ttl # DEFAULT_TTL
SpecLocale == InitShortTtl /\ [][NextLocale]_vars

\* the cache alone, used through its own interface
NextCache ==
  \/ \E key \in DirectKeys, data \in DirectData, ttlArg \in TtlOverrides :
       cacheSet(key, data, ttlArg)
  \/ \E key \in DirectKeys : cacheGet(key)
  \/ \E key \in DirectKeys : cacheRemove(key)
  \/ clearCache
  \/ Tick

SpecCache == Init /\ [][NextCache]_vars

\* a client created with cache: { enabled: false }
NextDisabled ==
  \/ \E locale \in Locales : setLocale(locale)
  \/ \E slug \in Slugs : collection(slug)
  \/ Queries
  \/ Responses
  \/ \E key \in DirectKeys, data \in DirectData, ttlArg \in TtlOverrides :
       cacheSet(key, data, ttlArg)
  \/ \E key \in DirectKeys : cacheGet(key)

InitDisabled == Init /\ ~enabled
SpecDisabled == InitDisabled /\ [][NextDisabled]_vars

\* many() and all() with every kind of limit, on a fixed clock
NextLimits ==
  \/ \E slug \in Slugs : collection(slug)
  \/ \E h \in handles : \E limit \in ManyLimits : Many(h, limit)
  \/ \E h \in handles : All(h)
  \/ \E i \in 1..MaxCalls :
       \E l \in Locales : \E items \in ListResponses(l) : ManyFetched(i, items)
  \/ \E i \in 1..MaxCalls : \E status \in ErrorStatuses : ManyFailed(i, status)

SpecLimits == InitEnabled /\ [][NextLimits]_vars

\* The component sets SpecKeys derives keys from: every combination of two
\* locales, two collections, four query kinds and six parameter objects.
KeySlugs == {"blog", "news"}
KeyKinds == {<<"first", "">>, <<"many", "">>, <<"item", "a">>, <<"item", "b">>}
KeyParams ==
  {<<>>, <<NumParam("limit", 5)>>,
   <<StrParam("variant", "Aa")>>, <<StrParam("variant", "BB")>>,
   <<NumParam("width", 1), NumParam("height", 2)>>,
   <<NumParam("height", 2), NumParam("width", 1)>>}
KeyComponents ==
  {KeyComponentsOf(locale, slug, "", kind[1], kind[2], params) :
     locale \in Locales, slug \in KeySlugs, kind \in KeyKinds, params \in KeyParams}
KeyTable == [c \in KeyComponents |-> generateKeyOf(c)]

\* entries stored under generated keys
NextKeys ==
  \E c \in KeyComponents : cacheSet(KeyTable[c], SingleData(Item("a", "en", 1)), Undefined)

SpecKeys == InitEnabled /\ [][NextKeys]_vars

\* Component sets with a locale, with the empty string as locale and with
\* the locale left out, for collections and for assets.
LocaleComponents ==
  {KeyComponentsOf(locale, slug, "", kind[1], kind[2], params) :
     locale \in Locales \cup {NoLocale, ""}, slug \in KeySlugs, kind \in KeyKinds,
     params \in {<<>>, <<NumParam("limit", 5)>>}}
  \cup {KeyComponentsOf(locale, "", "logo", "asset-download", "", params) :
          locale \in Locales \cup {NoLocale, ""}, params \in {<<>>, <<NumParam("width", 1)>>}}

NextKeyLocales ==
  \E c \in LocaleComponents :
    cacheSet(generateKeyOf(c), SingleData(Item("a", "en", 1)), Undefined)

SpecKeyLocales == InitEnabled /\ [][NextKeyLocales]_vars

\* keys of two locales and an asset of this project, of another project, and
\* of another application
OtherProject == "p2"
StoredKeys ==
  {generateKeyOf(KeyComponentsOf(l, "blog", "", "first", "", <<>>)) : l \in Locales}
  \cup {generateKeyOf(KeyComponentsOf("en", "", "logo", "asset-download", "", <<>>)),
        Join(<<CACHE_KEY_PREFIX, OtherProject, "en", "blog", "first">>, ":"),
        "prefs:p1:en:"}

\* entries of several locales and projects, and clearLocaleCache
NextClearLocale ==
  \/ \E key \in StoredKeys, data \in DirectData : cacheSet(key, data, Undefined)
  \/ \E projectId \in {ProjectId, OtherProject}, locale \in Locales :
       clearLocaleCache(projectId, locale)

SpecClearLocale == InitEnabled /\ [][NextClearLocale]_vars

\* asset downloads by managers of two locales that share the cache
NextAssets ==
  \/ \E locale \in Locales, assetId \in AssetIds, useCache \in BOOLEAN :
       downloadAsset(locale, assetId, useCache)
  \/ \E i \in 1..MaxCalls : \E response \in AssetResponses : AssetFetched(i, response)
  \/ \E i \in 1..MaxCalls : \E status \in ErrorStatuses : AssetFailed(i, status)
  \/ \E locale \in Locales, assetId \in AssetIds, text \in BrokenTexts :
       ForeignAsset(locale, assetId, text)

SpecAssets == InitEnabled /\ [][NextAssets]_vars

\* asset downloads and clearAssetCache by managers of two locales
NextAssetClear ==
  \/ \E locale \in Locales, assetId \in AssetIds, useCache \in BOOLEAN :
       downloadAsset(locale, assetId, useCache)
  \/ \E i \in 1..MaxCalls : \E response \in AssetResponses : AssetFetched(i, response)
  \/ \E i \in 1..MaxCalls : \E status \in ErrorStatuses : AssetFailed(i, status)
  \/ \E locale \in Locales : clearAssetCache(locale)

SpecAssetClear == InitEnabled /\ [][NextAssetClear]_vars

\* entries under and outside the vms: prefix, and clear
NextClear ==
  \/ \E key \in StoredKeys \cup DirectKeys, data \in DirectData :
       cacheSet(key, data, Undefined)
  \/ cacheClear

SpecClear == InitEnabled /\ [][NextClear]_vars

\* downloads with asset ids and sizes that pass and that fail validation
RequestedIds == {"logo", "bad@id", ""}
Widths == {Undefined, 0, 2}
Heights == {Undefined, -1}

NextAssetOptions ==
  \/ \E assetId \in RequestedIds, useCache \in BOOLEAN, width \in Widths,
          height \in Heights :
       downloadAssetOpts(DEFAULT_LOCALE, assetId, useCache, width, height)
  \/ \E i \in 1..MaxCalls : \E response \in AssetResponses : AssetFetched(i, response)
  \/ \E i \in 1..MaxCalls : \E status \in ErrorStatuses : AssetFailed(i, status)

SpecAssetOptions == InitEnabled /\ [][NextAssetOptions]_vars

\* asset urls asked of a client whose locale changes
NextAssetUrls ==
  \/ \E locale \in Locales : setLocale(locale)
  \/ \E baseUrl \in BaseUrls, assetId \in RequestedIds, variant \in Variants,
          width \in Widths, height \in Heights :
       assetUrl(baseUrl, assetId, variant, width, height)
  \/ Tick

SpecAssetUrls == InitEnabled /\ [][NextAssetUrls]_vars

\* entries of several ages and lifetimes, inside and outside the prefix, and
\* cleanup
CleanupKeys == {"vms:test:key1", "vms:test:key2", "other-app:key"}

NextCleanup ==
  \/ \E key \in CleanupKeys, ttlArg \in TtlOverrides :
       cacheSet(key, SingleData(Item("a", "en", 1)), ttlArg)
  \/ Tick
  \/ cleanup

SpecCleanup == Init /\ [][NextCleanup]_vars

\* caches constructed in every environment
NextConstruct ==
  \/ \E configEnabled \in BOOLEAN, configStorage \in ConfigStorages,
          configTtl \in ConfigTtls, localState \in StorageStates,
          sessionState \in StorageStates :
       newBrowserCache(configEnabled, configStorage, configTtl, localState,
                       sessionState)
  \/ Tick

SpecConstruct == Init /\ [][NextConstruct]_vars

\* the cache alone, over a storage that other writers share
NextForeign ==
  \/ \E key \in DirectKeys, kind \in CorruptKinds : ForeignWrite(key, kind)
  \/ \E key \in DirectKeys, data \in DirectData, ttlArg \in TtlOverrides :
       cacheSet(key, data, ttlArg)
  \/ \E key \in DirectKeys : cacheGet(key)
  \/ Tick

SpecForeign == InitEnabled /\ [][NextForeign]_vars

\* the keys the four queries of a collection write, for collections named
\* blog and asset, and the key of a downloaded asset; then clearAssetCache
QuerySlugs == {"blog", "asset"}
QueryKinds == {<<"first", "">>, <<"many", "">>, <<"all", "">>, <<"item", "a">>}
CollectionKeys ==
  {generateKey(ProjectId, l, slug, kind[1], kind[2], Undefined) :
     l \in Locales, slug \in QuerySlugs, kind \in QueryKinds}
AssetKeys == {AssetKey(l, "logo") : l \in Locales}

NextAssetSlug ==
  \/ \E key \in CollectionKeys \cup AssetKeys :
       cacheSet(key, SingleData(Item("a", "en", 1)), Undefined)
  \/ \E locale \in Locales : clearAssetCache(locale)
  \/ Tick

SpecAssetSlug == InitEnabled /\ [][NextAssetSlug]_vars

\* a browser storage holding the entries of two projects, and clearCache
\* of the client of ProjectId
NextProjects ==
  \/ \E key \in StoredKeys, data \in DirectData, ttlArg \in TtlOverrides :
       cacheSet(key, data, ttlArg)
  \/ clearCache
  \/ Tick

SpecProjects == InitEnabled /\ [][NextProjects]_vars

\* a browser storage shared with other code: keys outside the prefix are
\* there from the start or appear, and the cache is constructed and used
SharedKeys == DirectKeys \cup {ForeignKey, ProbeKey}

OtherWriter == \E kind \in CorruptKinds : ForeignWrite(ProbeKey, kind)

NextShared ==
  \/ OtherWriter
  \/ \E configStorage \in ConfigStorages, configTtl \in ConfigTtls :
       newBrowserCache(TRUE, configStorage, configTtl, "ok", "ok")
  \/ \E key \in SharedKeys, ttlArg \in TtlOverrides :
       cacheSet(key, SingleData(Item("a", "en", 1)), ttlArg)
  \/ \E key \in SharedKeys : cacheGet(key)
  \/ \E key \in SharedKeys : cacheRemove(key)
  \/ cacheClear
  \/ Tick

SpecShared == InitEnabled /\ [][NextShared]_vars

\* the library on a browser storage that misbehaves
NextFaults ==
  \/ \E slug \in Slugs : collection(slug)
  \/ Queries
  \/ Responses
  \/ StorageFault
  \/ \E key \in QueryKeys, kind \in CorruptKinds : ForeignWrite(key, kind)

SpecFaults == InitShortTtl /\ [][NextFaults]_vars

(***************************************************************************)
(* CollectionResult.isEmpty, and helpers of the properties below.          *)
(***************************************************************************)
isEmpty(data) == data.shape = "null" \/ (data.shape = "array" /\ Len(data.items) = 0)

isSingle(data) == data.shape # "null" /\ data.shape # "array"

isArray(data) == data.shape = "array"

\* a count that takes every payload but null for one item
count_single(data) == IF data.shape = "null" THEN 0 ELSE 1

count(data) ==
  IF data.shape = "null" THEN 0
  ELSE IF data.shape = "array" THEN Len(data.items)
  ELSE 1

toArray(data) ==
  IF data.shape = "null" THEN <<>>
  ELSE IF data.shape = "array" THEN data.items
  ELSE IF data.shape = "single" THEN <<data.items[1]>>
  ELSE <<Undefined>>

(***************************************************************************)
(* CollectionResult over content items.  An item carries data fields; the  *)
(* value of a field is missing, null, a string or an array of strings.     *)
(***************************************************************************)
MaxResults == 2

Missing == [kind |-> "missing", ids |-> <<>>]
NullValue == [kind |-> "null", ids |-> <<>>]
Str(text) == [kind |-> "string", ids |-> <<text>>]
Arr(list) == [kind |-> "array", ids |-> list]

ContentItem(id, image, gallery) ==
  [id |-> id, data |-> [gallery |-> gallery, featured_image |-> image]]

Item1 == ContentItem("item-1", Str("asset-123"), Arr(<<"asset-456", "asset-789">>))
Item2 == ContentItem("item-2", NullValue, Arr(<<>>))
Item3 == ContentItem("item-3", Str(""), Str("asset-567"))
ContentItems == {Item1, Item2, Item3}
FieldNames == {"featured_image", "gallery", "title"}

\* the payloads results are constructed with
Payloads ==
  {NullData, SingleData(Item1), SingleData(Item2), ArrayData(<<>>),
   ArrayData(<<Item1, Item2, Item3>>), ArrayData(<<Item3, Item1>>)}

\* item?.data?.[fieldName]
FieldOf(item, fieldName) ==
  IF fieldName \in DOMAIN item.data THEN item.data[fieldName] ELSE Missing

\* value ?? null
OrNull(value) == IF value.kind \in {"missing", "null"} THEN NullValue ELSE value

\* !assetId
Falsy(value) == value.kind \in {"missing", "null"} \/ value = Str("")

\* CollectionResult.field; a returned value is wrapped as a single payload
field(data, fieldName) ==
  IF data.shape = "null" THEN NullData
  ELSE IF data.shape = "array"
       THEN ArrayData([i \in DOMAIN data.items |->
                         OrNull(FieldOf(data.items[i], fieldName))])
  ELSE SingleData(OrNull(FieldOf(data.items[1], fieldName)))

\* the base url of the fetcher behind the asset manager of the results
ResultBaseUrl == "https://api.test"

\* this.assetManager.generateAssetUrl(id, options), without options
UrlOf(id) ==
  generateAssetUrl(ResultBaseUrl, ProjectId, DEFAULT_LOCALE, id, "", Undefined,
                   Undefined)

\* assetId.map(id => generateAssetUrl(id)), and the one url of a string
UrlsOf(value) == [i \in DOMAIN value.ids |-> UrlOf(value.ids[i])]

\* Array.prototype.flat() over entries that are a url or an array of urls
RECURSIVE Flat(_)
Flat(entries) ==
  IF entries = <<>> THEN <<>>
  ELSE Head(entries).ids \o Flat(Tail(entries))

\* asset urls of the first url of each item only
asset_url_firstOnly(data, fieldName) ==
  IF data.shape = "null" THEN NullData
  ELSE IF data.shape = "array"
       THEN LET mapped == [i \in DOMAIN data.items |->
                             LET assetId == FieldOf(data.items[i], fieldName)
                             IN IF Falsy(assetId) THEN NullValue
                                ELSE IF assetId.ids = <<>> THEN Arr(<<>>)
                                ELSE Arr(<<UrlOf(assetId.ids[1])>>)]
            IN ArrayData(Flat(SelectSeq(mapped, LAMBDA url : url # NullValue)))
  ELSE LET assetId == FieldOf(data.items[1], fieldName)
       IN IF Falsy(assetId) THEN NullData
          ELSE IF assetId.kind = "array" THEN ArrayData(UrlsOf(assetId))
          ELSE SingleData(UrlOf(assetId.ids[1]))

\* CollectionResult.asset_url without options
asset_url(data, fieldName) ==
  IF data.shape = "null" THEN NullData
  ELSE IF data.shape = "array"
       THEN LET mapped == [i \in DOMAIN data.items |->
                             LET assetId == FieldOf(data.items[i], fieldName)
                             IN IF Falsy(assetId) THEN NullValue
                                ELSE [kind |-> assetId.kind, ids |-> UrlsOf(assetId)]]
            IN ArrayData(Flat(SelectSeq(mapped, LAMBDA url : url # NullValue)))
  ELSE LET assetId == FieldOf(data.items[1], fieldName)
       IN IF Falsy(assetId) THEN NullData
          ELSE IF assetId.kind = "array" THEN ArrayData(UrlsOf(assetId))
          ELSE SingleData(UrlOf(assetId.ids[1]))

\* the callbacks handed to filter and find
Callbacks == {"all", "none", "hasImage"}
Holds(fn, item) ==
  IF fn = "all" THEN TRUE
  ELSE IF fn = "none" THEN FALSE
  ELSE ~Falsy(FieldOf(item, "featured_image"))

\* CollectionResult.map with item => item.id
map(data) == ArrayData([i \in DOMAIN toArray(data) |-> toArray(data)[i].id])

\* the payload of the result filter constructs
filter(data, fn) ==
  ArrayData(SelectSeq(toArray(data), LAMBDA item : Holds(fn, item)))

find(data, fn) ==
  LET matches == SelectSeq(toArray(data), LAMBDA item : Holds(fn, item))
  IN IF matches = <<>> THEN UndefinedData ELSE SingleData(matches[1])

\* CollectionResult.first and CollectionResult.last
first(data) ==
  IF data.shape = "null" THEN NullData
  ELSE IF data.shape = "array"
       THEN IF data.items = <<>> THEN NullData ELSE SingleData(data.items[1])
  ELSE data

lastOf(data) ==
  IF data.shape = "null" THEN NullData
  ELSE IF data.shape = "array"
       THEN IF data.items = <<>> THEN NullData
            ELSE SingleData(data.items[Len(data.items)])
  ELSE data

\* a filter that narrows the instance it is called on
filterInto_inPlace(objects, r, fn) == [objects EXCEPT ![r] = filter(objects[r], fn)]

\* the instances after filter on instance r: a new one is constructed
filterInto(objects, r, fn) == Append(objects, filter(objects[r], fn))

cacheVars == <<enabled, ttl, adapter, localStorage, memoryStorage, storageFails,
               now, clientLocale, handles, calls, last, started, served,
               nullServed, written, lastGet, memoryKeys>>

\* new CollectionResult(data, assetManager)
newCollectionResult(data) ==
  /\ Len(results.objects) < MaxResults
  /\ results' = [objects |-> Append(results.objects, data), method |-> "new",
                 target |-> Len(results.objects) + 1, arg |-> "", out |-> NullData]
  /\ UNCHANGED cacheVars

\* a method of instance r, called with arg, that returns out
Returns(r, method, arg, out) ==
  /\ results' = [objects |-> results.objects, method |-> method, target |-> r,
                 arg |-> arg, out |-> out]
  /\ UNCHANGED cacheVars

fieldCalled(r, fieldName) ==
  Returns(r, "field", fieldName, field(results.objects[r], fieldName))

assetUrlCalled(r, fieldName) ==
  Returns(r, "asset_url", fieldName, asset_url(results.objects[r], fieldName))

mapCalled(r) == Returns(r, "map", "", map(results.objects[r]))

findCalled(r, fn) == Returns(r, "find", fn, find(results.objects[r], fn))

firstCalled(r) == Returns(r, "first", "", first(results.objects[r]))

lastCalled(r) == Returns(r, "last", "", lastOf(results.objects[r]))

\* for (const item of result)
iterated(r) == Returns(r, "iterate", "", ArrayData(toArray(results.objects[r])))

\* filter returns the instance it constructed
filterCalled(r, fn) ==
  /\ Len(results.objects) < MaxResults
  /\ results' = [objects |-> filterInto(results.objects, r, fn),
                 method |-> "filter", target |-> r, arg |-> fn,
                 out |-> [shape |-> "instance",
                          items |-> <<Len(filterInto(results.objects, r, fn))>>]]
  /\ UNCHANGED cacheVars

NextResults ==
  \/ \E data \in Payloads : newCollectionResult(data)
  \/ \E r \in DOMAIN results.objects, fieldName \in FieldNames : fieldCalled(r, fieldName)
  \/ \E r \in DOMAIN results.objects, fieldName \in FieldNames : assetUrlCalled(r, fieldName)
  \/ \E r \in DOMAIN results.objects : mapCalled(r)
  \/ \E r \in DOMAIN results.objects, fn \in Callbacks : filterCalled(r, fn)
  \/ \E r \in DOMAIN results.objects, fn \in Callbacks : findCalled(r, fn)
  \/ \E r \in DOMAIN results.objects : firstCalled(r)
  \/ \E r \in DOMAIN results.objects : lastCalled(r)
  \/ \E r \in DOMAIN results.objects : iterated(r)

SpecResults == InitEnabled /\ [][NextResults]_vars

ItemsOf(data) == {data.items[n] : n \in 1..Len(data.items)}
LocalePrefix(locale) == CACHE_KEY_PREFIX \o ":" \o ProjectId \o ":" \o locale \o ":"
KeyLocaleIs(key, locale) == StartsWith(key, LocalePrefix(locale))
KeyOf(id) == generateKey(ProjectId, id.locale, id.slug, id.op, id.itemId, id.limit)
Completed == last.pc # "none"
\* a step in which a query method is invoked, and the query it starts
QueryInvoked ==
  started' = started + 1 /\ (Len(calls') > Len(calls) \/ last'.source = "cache")
NewCall == IF Len(calls') > Len(calls) THEN calls'[Len(calls')] ELSE last'

(***************************************************************************)
(* Properties.                                                             *)
(***************************************************************************)

\* C1: with caching enabled, once a query has completed with a non-null
\* result, an identical query (same collection, locale, shape, parameters)
\* issued before the entry's TTL has elapsed and with no invalidation in
\* between performs no transport request and returns the same payload.
C1_RepeatServedFromCache ==
  enabled =>
    /\ \A n \in 1..Len(calls) : ~calls[n].expectHit
    /\ (Completed /\ last.expectHit) =>
         /\ last.pc = "returned"
         /\ last.source = "cache"
         /\ last.req = ""
         /\ last.result = last.expectData

\* a many({limit}) repeated within the TTL and answered from the cache
C1_Witness ==
  /\ enabled /\ Completed /\ last.expectHit
  /\ last.source = "cache"
  /\ last.op = "many" /\ last.limit # Undefined
  /\ Len(last.result.items) > 0

\* C2, as stated: for an entry written by set with effective TTL t, a get
\* issued when at least t milliseconds have elapsed returns null and leaves
\* the key absent, and a get issued earlier returns the stored payload.
C2_ExpiresAtTtl ==
  (enabled /\ lastGet.had) =>
    IF lastGet.at - lastGet.wAt >= lastGet.wTtl
    THEN lastGet.value = NullData /\ lastGet.absentAfter
    ELSE lastGet.value = lastGet.wData

\* C2, amended: for an entry written by set with effective TTL t (the
\* override if one was supplied, else the cache default), a get issued when
\* more than t milliseconds have elapsed returns null and leaves the key
\* absent, and a get issued when at most t have elapsed returns the payload.
C2_ExpiresAfterTtl ==
  (enabled /\ lastGet.had) =>
    IF lastGet.at - lastGet.wAt > lastGet.wTtl
    THEN lastGet.value = NullData /\ lastGet.absentAfter
    ELSE lastGet.value = lastGet.wData

\* a get issued exactly t milliseconds after the write, returning the payload
C2_Witness ==
  /\ enabled /\ lastGet.had
  /\ lastGet.at - lastGet.wAt = lastGet.wTtl
  /\ lastGet.wData # NullData
  /\ lastGet.value = lastGet.wData

\* C3: after item(id) got a 404, or first() found the collection empty, a
\* repeat of the same query within the 60 s null-result TTL is answered from
\* the cache and triggers no transport request.
C3_NullResultServedFromCache ==
  enabled =>
    /\ \A n \in 1..Len(calls) : ~calls[n].expectNull
    /\ (Completed /\ last.expectNull) => (last.source = "cache" /\ last.req = "")

\* C4: cache entries are isolated per locale: no query gets items of another
\* locale than its own, and the same logical query run under two locales
\* leaves two entries, each holding what was fetched for its locale.
C4_LocaleIsolation ==
  /\ (Completed /\ last.pc = "returned") =>
       \A it \in ItemsOf(last.result) : it.locale = last.locale
  /\ \A s \in served :
       KeyOf(s.ident) \in DOMAIN Store /\ Store[KeyOf(s.ident)].data = s.data

\* the same logical query has run under two locales; both entries are stored
C4_Witness ==
  \E s1, s2 \in served :
    /\ s1.ident.locale # s2.ident.locale
    /\ [s1.ident EXCEPT !.locale = s2.ident.locale] = s2.ident
    /\ KeyOf(s1.ident) # KeyOf(s2.ident)
    /\ {KeyOf(s1.ident), KeyOf(s2.ident)} \subseteq DOMAIN Store
    /\ Len(s1.data.items) > 0

C6_InFlightKeepsLocale ==
  /\ (Completed /\ last.source = "network") =>
       /\ LocaleParam(last.req) = last.locale
       /\ KeyLocaleIs(last.key, last.locale)
  /\ (Completed /\ last.source = "network" /\ last.pc = "returned") =>
       /\ last.key \in DOMAIN Store
       /\ Store[last.key].data = last.result
       /\ Store[last.key].timestamp = now
  /\ \A k \in DOMAIN Store, l \in Locales :
       (KeyLocaleIs(k, l) /\ Store[k].json = "entry") =>
         \A it \in ItemsOf(Store[k].data) : it.locale = l

\* a query has completed from the network after the locale changed under it
C6_Witness ==
  /\ Completed /\ last.raced
  /\ last.source = "network" /\ last.pc = "returned"
  /\ last.locale # clientLocale
  /\ Len(last.result.items) > 0

\* C7: identical queries started concurrently on a cold cache each perform
\* their own transport request and their own cache write.
C7_NoSharedRequests ==
  enabled =>
    /\ \A n \in 1..Len(calls) : calls[n].req # ""
    /\ (Completed /\ last.conc /\ last.cold /\ last.pc = "returned") =>
         /\ last.source = "network"
         /\ last.req # ""
         /\ last.wrote

\* the last of the concurrent identical queries has fetched and written
C7_Witness ==
  /\ enabled /\ Completed
  /\ last.conc /\ last.cold
  /\ last.pc = "returned" /\ last.wrote
  /\ Len(calls) = 0

\* C8: no storage failure (failing read or write, corrupted entry) is
\* visible above the cache: what a query returns is data the cache was given
\* by a query, or the fetched result.
C8_StorageFailuresInvisible ==
  (Completed /\ last.pc = "returned") =>
    /\ last.result.shape \in {"null", "single", "array"}
    /\ \A it \in ItemsOf(last.result) : it.locale = last.locale

\* C9: with caching disabled, get returns null, set writes nothing, every
\* query performs a transport request, and nothing appears in the storage.
C9_DisabledCache ==
  ~enabled =>
    /\ lastGet.value = NullData
    /\ localStorage = (ForeignKey :> ForeignValue)
    /\ memoryStorage = <<>>
    /\ \A n \in 1..Len(calls) : calls[n].req # ""
    /\ Completed => (last.source = "network" /\ last.req # "")

\* a repeat of a query that had completed, answered by the transport again
C9_Witness ==
  /\ ~enabled /\ Completed
  /\ last.expectHit
  /\ last.pc = "returned" /\ last.source = "network"
  /\ memoryStorage = <<>>

\* C10: item(id) turns a 404 of the transport into a successful empty
\* result; any other transport failure is rethrown and writes nothing.
C10_ItemNotFound ==
  (Completed /\ last.op = "item") =>
    /\ last.status = 404 => (last.pc = "returned" /\ isEmpty(last.result))
    /\ last.status \notin {0, 200, 404} => (last.pc = "threw" /\ ~last.wrote)
    /\ last.pc = "threw" => last.status \notin {0, 200, 404}

\* an item() whose request got a 404 has returned an empty result
C10_Witness ==
  /\ Completed /\ last.op = "item"
  /\ last.status = 404
  /\ last.pc = "returned" /\ isEmpty(last.result)

C13_CorruptedEntryDropped ==
  lastGet.found \in CorruptKinds =>
    (lastGet.value = NullData /\ lastGet.absentAfter)

ServedMany(q) ==
  {s \in served : s.ident.op = "many" /\ s.ident.slug = q.slug
                     /\ s.ident.locale = q.locale}

\* C15 as stated: a many() served from the cache returns a list that was
\* fetched for the very same limit (or for no limit, if it has none).
C15_CachedPerLimit ==
  (Completed /\ last.op = "many" /\ last.source = "cache") =>
    \E s \in ServedMany(last) : s.ident.limit = last.limit /\ s.data = last.result

\* C15: a many() served from the cache returns a list that was fetched for
\* the same limit, where a limit of 0 counts as no limit.
C15_CachedPerTruthyLimit ==
  (Completed /\ last.op = "many" /\ last.source = "cache") =>
    \E s \in ServedMany(last) :
      /\ \/ s.ident.limit = last.limit
         \/ {s.ident.limit, last.limit} \subseteq {Undefined, 0}
      /\ s.data = last.result

\* a many({limit: 3}) went to the network although a list fetched for
\* many({limit: 1}) was in the cache
C15_Witness ==
  /\ Completed /\ last.op = "many" /\ last.source = "network"
  /\ last.limit = 3
  /\ \E s \in ServedMany(last) : s.ident.limit = 1
  /\ Len(last.result.items) = 2

\* C16: an all() reads the cache key of many() without a limit: it returns
\* the list stored there when that entry is fresh, and otherwise issues the
\* request of many() and will write that key.
C16_AllIsMany ==
  [][\A h \in handles :
       All(h) =>
         LET q == NewCall
             id == Ident("many", h.slug, h.locale, "", Undefined)
             fresh == /\ KeyOf(id) \in DOMAIN Store
                      /\ now - Store[KeyOf(id)].timestamp <= Store[KeyOf(id)].ttl
         IN /\ q.key = KeyOf(id)
            /\ IdentOf(q) = id
            /\ IF fresh
               THEN q.source = "cache" /\ q.result = Store[KeyOf(id)].data
               ELSE q.source = "network"
                    /\ q.req = ListEndpoint(ProjectId, h.slug, h.locale)]_vars

\* a call without a limit was served the list an earlier one had fetched
C16_Witness ==
  /\ Completed /\ last.op = "many" /\ last.limit = Undefined
  /\ last.source = "cache" /\ last.expectHit
  /\ last.result.shape = "array"

\* the properties of a params object, whatever their insertion order
ParamSet(params) == {params[i] : i \in DOMAIN params}

\* two component sets that differ in exactly one component
DiffersInOne(c1, c2) ==
  Cardinality({f \in {"locale", "collectionSlug", "queryType", "itemId"} :
                 c1[f] # c2[f]}
              \cup (IF ParamSet(c1.params) # ParamSet(c2.params) THEN {"params"} ELSE {}))
    = 1

\* C17: the key an entry is stored under is the key of no component set that
\* differs from its own in one of locale, collection slug, query kind, item
\* id or parameter set, and is the key of every component set that differs
\* only in the insertion order of the parameters.
C17_KeysCollisionFree ==
  \A c1 \in KeyComponents :
    KeyTable[c1] \in DOMAIN localStorage =>
      \A c2 \in KeyComponents :
        /\ DiffersInOne(c1, c2) => KeyTable[c2] # KeyTable[c1]
        /\ (\A f \in {"locale", "collectionSlug", "queryType", "itemId"} : c1[f] = c2[f])
             /\ ParamSet(c1.params) = ParamSet(c2.params)
             => KeyTable[c2] = KeyTable[c1]

\* C18: clearLocaleCache(projectId, A) removes exactly the stored keys that
\* begin with vms:{projectId}:A: and leaves every other key with its value:
\* keys of other locales (en-US when A is en), of other projects and outside
\* the vms: prefix.
C18_ClearLocaleFrame ==
  [][\A projectId \in {ProjectId, OtherProject}, A \in Locales :
       clearLocaleCache(projectId, A) =>
         LET gone == {k \in DOMAIN localStorage :
                        StartsWith(k, "vms:" \o projectId \o ":" \o A \o ":")}
         IN /\ DOMAIN localStorage' = DOMAIN localStorage \ gone
            /\ \A k \in DOMAIN localStorage' : localStorage'[k] = localStorage[k]]_vars

\* clearLocaleCache(p1, en) has removed an entry of en and left the entry of
\* en-US and the key of another application
C18_Witness ==
  /\ last.pc = "cleared" /\ last.locale = "en" /\ last.key = ProjectId
  /\ last.wrote
  /\ "vms:p1:en:blog:first" \notin DOMAIN localStorage
  /\ "vms:p1:en-US:blog:first" \in DOMAIN localStorage
  /\ ForeignKey \in DOMAIN localStorage

\* C19: once clearCache() of a collection has completed, a query on that
\* collection and locale is served from the cache only if its result was
\* fetched after the clear.
C19_ClearCacheLeavesNothing ==
  (Completed /\ last.source = "cache") =>
    \/ \E s \in served : s.ident.slug = last.slug /\ s.ident.locale = last.locale
    \/ \E s \in nullServed : s.ident.slug = last.slug /\ s.ident.locale = last.locale

\* C12: a downloadAsset that finds a cached copy whose text cannot be
\* decoded goes on as after a cache miss: it issues the asset request.
C12_UndecodableCopyIsMiss ==
  [][\A locale \in Locales, assetId \in AssetIds :
       (/\ downloadAsset(locale, assetId, TRUE)
        /\ AssetKey(locale, assetId) \in DOMAIN localStorage
        /\ LET item == localStorage[AssetKey(locale, assetId)].data.items[1]
           IN item.type = "string" /\ item.text \in BrokenTexts)
       => (NewCall.pc = "pending" /\ NewCall.source = "network")]_vars

\* C20: a downloadAsset for an asset that was downloaded and cached under any
\* locale is served from the cache, whatever the locale it is requested under.
C20_AssetCacheSharedAcrossLocales ==
  [][\A locale \in Locales, assetId \in AssetIds :
       (/\ downloadAsset(locale, assetId, TRUE)
        /\ \E x \in served : x.ident.op = "asset-download" /\ x.ident.itemId = assetId)
       => (NewCall.source = "cache" /\ NewCall.pc = "returned")]_vars

\* C21: once clearAssetCache() has completed, a downloadAsset is served from
\* the cache only if the asset was fetched after the clear, whatever locale
\* it was stored under.
C21_ClearAssetCacheLeavesNothing ==
  (Completed /\ last.op = "asset-download" /\ last.source = "cache") =>
    \E s \in served : s.ident.op = "asset-download" /\ s.ident.itemId = last.itemId

C23_AssetRoundTrip ==
  (Completed /\ last.op = "asset-download" /\ last.source = "cache"
     /\ last.pc = "returned") =>
    \E s \in served : s.ident = IdentOf(last) /\ s.data = last.result

\* a download was served from the cache the three bytes 255, 0, 128
C23_Witness ==
  /\ Completed /\ last.op = "asset-download" /\ last.source = "cache"
  /\ last.pc = "returned"
  /\ last.result.items[1].type = "ArrayBuffer"
  /\ last.result.items[1].bytes = <<255, 0, 128>>

\* C24: a downloadAsset with useCache false issues its request whatever the
\* cache holds, and neither its start nor its completion changes storage.
C24_UseCacheFalseBypasses ==
  [][/\ \A locale \in Locales, assetId \in AssetIds :
          downloadAsset(locale, assetId, FALSE) =>
            /\ NewCall.pc = "pending" /\ NewCall.source = "network"
            /\ NewCall.req = AssetEndpoint(ProjectId, assetId)
            /\ UNCHANGED <<localStorage, memoryStorage>>
     /\ \A i \in 1..Len(calls) : \A response \in AssetResponses :
          (AssetFetched(i, response) /\ ~calls[i].useCache) =>
            /\ ~last'.wrote
            /\ UNCHANGED <<localStorage, memoryStorage>>]_vars

\* a download with useCache false fetched the asset although a cached copy
\* of it was stored, and stored nothing
C24_Witness ==
  /\ Completed /\ last.op = "asset-download" /\ ~last.useCache
  /\ last.pc = "returned" /\ last.source = "network"
  /\ AssetKey(last.locale, last.itemId) \in DOMAIN localStorage
  /\ localStorage[AssetKey(last.locale, last.itemId)].data.items[1].text
       # arrayBufferToBase64(last.result.items[1].bytes)

\* the inputs generateAssetUrl rejects
generateAssetUrlThrows(assetId, width, height) ==
  AssetIdThrows(assetId) \/ SizeThrows(width, height)

\* C25: a downloadAsset fails on validation exactly for the inputs that
\* generateAssetUrl rejects, and such a call has read no cache entry,
\* changed no stored key and issued no request.
C25_ValidationBeforeIO ==
  [][\A assetId \in RequestedIds, useCache \in BOOLEAN, width \in Widths,
        height \in Heights :
       downloadAssetOpts(DEFAULT_LOCALE, assetId, useCache, width, height) =>
         /\ generateAssetUrlThrows(assetId, width, height)
              <=> (NewCall.pc = "threw" /\ NewCall.source = "validation")
         /\ generateAssetUrlThrows(assetId, width, height) =>
              UNCHANGED <<localStorage, memoryStorage, lastGet, calls>>]_vars

RECURSIVE Contains(_, _)
Contains(s, sub) ==
  /\ Len(sub) <= Len(s)
  /\ \/ StartsWith(s, sub)
     \/ Contains(SubSeq(s, 2, Len(s)), sub)

\* C26: the url generateAssetUrl returns is the one it returns for the same
\* base url, asset id, variant, width and height under every other locale,
\* and holds no locale parameter.
C26_AssetUrlLocaleIndependent ==
  [][\A baseUrl \in BaseUrls, assetId \in RequestedIds, variant \in Variants,
        width \in Widths, height \in Heights :
       (assetUrl(baseUrl, assetId, variant, width, height) /\ last'.pc = "returned") =>
         /\ \A locale \in Locales :
              generateAssetUrl(baseUrl, ProjectId, locale, assetId, variant,
                               width, height) = last'.req
         /\ ~Contains(last'.req, "locale")]_vars

\* an asset url with options generated after the client's locale was changed
C26_Witness ==
  /\ last.op = "asset-url" /\ last.pc = "returned"
  /\ last.locale # DEFAULT_LOCALE
  /\ last.req = "https://api.test/api/assets/p1/logo?variant=thumb&width=2"

\* C27: a cache constructed with caching enabled and the default storage
\* setting, where localStorage is unusable, ends on sessionStorage if that
\* is usable and on the in-memory storage only if it is not.
C27_FallbackChain ==
  [][\A configTtl \in ConfigTtls, localState \in StorageStates \ {"ok"},
        sessionState \in StorageStates :
       newBrowserCache(TRUE, "localStorage", configTtl, localState, sessionState) =>
         adapter' = IF sessionState = "ok" THEN "sessionStorage" ELSE "memory"]_vars

\* `now - entry.timestamp > entryTtl` for a stored entry
Expired(item, t) ==
  /\ item.json = "entry"
  /\ t - item.timestamp > (IF item.ttl # Undefined THEN item.ttl ELSE ttl)

\* C28: a cleanup leaves no expired entry under the vms: prefix, and leaves
\* every unexpired entry and every key outside the prefix as it was.
C28_CleanupRemovesExpired ==
  [][cleanup =>
       \A k \in DOMAIN localStorage \cup DOMAIN memoryStorage :
         LET inLocal == k \in DOMAIN localStorage
             item == IF inLocal THEN localStorage[k] ELSE memoryStorage[k]
             kept == IF inLocal
                     THEN k \in DOMAIN localStorage' /\ localStorage'[k] = item
                     ELSE k \in DOMAIN memoryStorage' /\ memoryStorage'[k] = item
             gone == IF inLocal THEN k \notin DOMAIN localStorage'
                     ELSE k \notin DOMAIN memoryStorage'
         IN /\ (StartsWith(k, "vms:") /\ Expired(item, now) /\ enabled) => gone
            /\ (~StartsWith(k, "vms:") \/ (item.json = "entry" /\ ~Expired(item, now)))
                 => kept]_vars

\* a cleanup that removed an expired entry and left an unexpired one and a
\* key of another application
C28_Witness ==
  /\ last.op = "cleanup" /\ last.wrote
  /\ "vms:test:key1" \notin DOMAIN localStorage
  /\ "vms:test:key2" \in DOMAIN localStorage
  /\ ForeignKey \in DOMAIN localStorage

\* the segments of a key between its colons
RECURSIVE Split(_, _)
Split(s, sep) ==
  IF \A i \in 1..Len(s) : SubSeq(s, i, i) # sep THEN <<s>>
  ELSE LET i == CHOOSE n \in 1..Len(s) :
                  SubSeq(s, n, n) = sep /\ \A m \in 1..(n - 1) : SubSeq(s, m, m) # sep
       IN <<SubSeq(s, 1, i - 1)>> \o Split(SubSeq(s, i + 1, Len(s)), sep)

\* C29: the key generateKey derives from any components has vms and the
\* project id as its first two segments and a non-empty locale as its third:
\* the locale given, or en-US when the components name none.
C29_LocaleSegmentPresent ==
  \A c \in LocaleComponents :
    generateKeyOf(c) \in DOMAIN localStorage =>
      LET segments == Split(generateKeyOf(c), ":")
      IN /\ Len(segments) >= 5
         /\ segments[1] = "vms" /\ segments[2] = ProjectId
         /\ segments[3] # ""
         /\ segments[3] = IF c.locale = NoLocale THEN "en-US" ELSE c.locale

\* C30: on the payload a query returned, the inspectors agree with its
\* shape: null gives count 0, isEmpty, neither isSingle nor isArray; one item
\* gives count 1, isSingle, not isEmpty; an array gives isArray and its length
\* as count; and always count is the length of toArray() and isEmpty holds
\* exactly when count is 0.
C30_InspectorsAgree ==
  (Completed /\ last.pc = "returned") =>
    LET data == last.result
    IN /\ data.shape = "null" =>
            count(data) = 0 /\ isEmpty(data) /\ ~isSingle(data) /\ ~isArray(data)
       /\ data.shape = "single" =>
            count(data) = 1 /\ isSingle(data) /\ ~isEmpty(data)
       /\ data.shape = "array" =>
            isArray(data) /\ count(data) = Len(data.items)
       /\ count(data) = Len(toArray(data))
       /\ isEmpty(data) <=> (count(data) = 0)

\* a query returned an array of two items
C30_Witness ==
  /\ Completed /\ last.pc = "returned"
  /\ last.result.shape = "array" /\ Len(last.result.items) = 2

\* C31: no method changes a CollectionResult: after map, filter, find, field,
\* asset_url, first, last or an iteration every instance held before has the
\* payload, and so the count, it had, and filter returns an instance that
\* was not held before.
C31_ResultNeverChanges ==
  [][/\ \A r \in DOMAIN results.objects :
          /\ r \in DOMAIN results'.objects
          /\ results'.objects[r] = results.objects[r]
          /\ count(results'.objects[r]) = count(results.objects[r])
     /\ results'.method = "filter" =>
          /\ results'.out.shape = "instance"
          /\ results'.out.items[1] \notin DOMAIN results.objects
          /\ results'.out.items[1] \in DOMAIN results'.objects]_vars

\* filter was called on a result of three items and returned a result of one
C31_Witness ==
  /\ results.method = "filter"
  /\ count(results.objects[results.target]) = 3
  /\ count(results.objects[results.out.items[1]]) = 1

\* the urls of the assets the items name in a field, in item order, the
\* items without the field left out
RECURSIVE ReferencedUrls(_, _)
ReferencedUrls(items, fieldName) ==
  IF items = <<>> THEN <<>>
  ELSE LET value == FieldOf(Head(items), fieldName)
       IN (IF value.kind \in {"missing", "null"} \/ value = Str("") THEN <<>>
           ELSE [i \in DOMAIN value.ids |->
                   "https://api.test/api/assets/p1/" \o value.ids[i]])
          \o ReferencedUrls(Tail(items), fieldName)

\* C32: on an array payload field(x) returns one value per item, in item
\* order, null where the item lacks the field, and asset_url(x) returns the
\* urls of all assets the items reference, flattened one level, items
\* lacking the field dropped; on a null payload both return null.
C32_FieldAndAssetUrl ==
  (results.method \in {"field", "asset_url"}) =>
    LET data == results.objects[results.target]
        out == results.out
    IN /\ data.shape = "null" => out = NullData
       /\ (data.shape = "array" /\ results.method = "field") =>
            /\ out.shape = "array"
            /\ Len(out.items) = Len(data.items)
            /\ \A i \in DOMAIN data.items :
                 out.items[i] =
                   IF results.arg \in DOMAIN data.items[i].data
                      /\ data.items[i].data[results.arg].kind # "null"
                   THEN data.items[i].data[results.arg]
                   ELSE NullValue
       /\ (data.shape = "array" /\ results.method = "asset_url") =>
            /\ out.shape = "array"
            /\ out.items = ReferencedUrls(data.items, results.arg)

\* asset_url on three items, of which one names two assets, one an empty
\* list and one a single asset, returned three urls
C32_Witness ==
  /\ results.method = "asset_url" /\ results.arg = "gallery"
  /\ results.objects[results.target] = ArrayData(<<Item1, Item2, Item3>>)
  /\ Len(results.out.items) = 3

\* C33: a query that was pending when clear(), clearLocaleCache() or
\* CollectionQuery.clearCache() invalidated its key leaves no entry under
\* that key when it completes.
C33_InvalidationNotUndone ==
  (Completed /\ last.pc = "returned" /\ last.source = "network" /\ last.invalidated) =>
    ~last.wrote

\* C34: when a query completes after an identical query that was issued
\* later, its response does not replace the entry stored under their key.
C34_OlderNeverOverwritesNewer ==
  [][(/\ Len(calls') < Len(calls)
      /\ last'.pc = "returned" /\ last'.source = "network"
      /\ last'.overtaken
      /\ last'.key \in DOMAIN localStorage) =>
        /\ last'.key \in DOMAIN localStorage'
        /\ localStorage'[last'.key] = localStorage[last'.key]]_vars

\* one step of the cache over the in-memory adapter, as seen by the entry
\* stored under k: an unexpired entry is still stored, unchanged, and a get
\* of it returns its data, unless the step is remove(k), set(k) or a clear;
\* an expired entry is still stored unless the step is get(k), remove(k),
\* set(k) or a clear.  With evictionCounts, a set that finds the adapter's
\* limit reached may delete the entry as well.
EntryKept(k, evictionCounts) ==
  LET entry == memoryStorage[k]
      touched == \/ last'.op \in {"remove", "set"} /\ last'.key = k
                 \/ last'.op = "clear"
                 \/ /\ evictionCounts
                    /\ last'.op = "set"
                    /\ MapSize(memoryKeys) >= MEMORY_LIMIT
      stays == k \in DOMAIN memoryStorage' /\ memoryStorage'[k] = entry
  IN IF Expired(entry, now)
     THEN stays \/ touched \/ (last'.op = "get" /\ last'.key = k)
     ELSE /\ stays \/ touched
          /\ (last'.op = "get" /\ last'.key = k) => lastGet'.value = entry.data

\* C35: an entry that was written is destroyed only by remove, a clear, or,
\* once it has expired, a read of it; until then a get returns it.
C35_DestroyedOnlyByListed ==
  [][\A k \in DOMAIN memoryStorage :
       memoryStorage[k].json = "entry" => EntryKept(k, FALSE)]_vars

\* C35 as the code has it: the in-memory adapter also deletes its 100
\* oldest entries, expired or not, when a set finds 1000 or more stored.
C35_DestroyedOnlyByListedOrEvicted ==
  [][\A k \in DOMAIN memoryStorage :
       memoryStorage[k].json = "entry" => EntryKept(k, TRUE)]_vars

\* a set of another key found the limit reached and evicted the oldest entry
C35_Witness ==
  /\ last.op = "set" /\ last.wrote
  /\ last.key # OldestKey
  /\ OldestKey \notin DOMAIN memoryStorage
  /\ MapSize(memoryKeys) = MEMORY_LIMIT - EVICT_COUNT + 1

\* the order without the slot of key
Drop(order, key) == SelectSeq(order, LAMBDA slot : slot.key # key)

\* C36: the in-memory store never holds more than 1000 entries; a set
\* deletes other entries only when it inserts a new key into a store that
\* already holds 1000, and the entries it deletes are the oldest inserted.
C36_BoundedOldestFirst ==
  [][/\ MapSize(memoryKeys') <= MEMORY_LIMIT
     /\ (last'.op = "set" /\ Drop(memoryKeys', last'.key) # Drop(memoryKeys, last'.key)) =>
          /\ MapSize(memoryKeys) + 1 > MEMORY_LIMIT
          /\ last'.key \notin DOMAIN memoryStorage
          /\ \E k \in 1..EVICT_COUNT :
               Drop(memoryKeys', last'.key) = Drop(Evict(memoryKeys, k), last'.key)]_vars

\* C37: whatever the library does (construction, get, set, remove, clear),
\* every key of the browser storage outside the vms: prefix stays as it
\* was: none appears, none changes, none disappears.
C37_ForeignKeysUntouched ==
  [][~OtherWriter =>
       \A k \in DOMAIN localStorage \cup DOMAIN localStorage' :
         ~StartsWith(k, VmsPrefix) =>
           /\ k \in DOMAIN localStorage
           /\ k \in DOMAIN localStorage'
           /\ localStorage'[k] = localStorage[k]]_vars

\* C38: clearAssetCache deletes no entry stored under the key of a
\* collection query (first, many, all, item), whatever the collection is
\* called.
C38_CollectionEntriesSurvive ==
  [][\A locale \in Locales :
       clearAssetCache(locale) =>
         \A k \in CollectionKeys \cap DOMAIN localStorage :
           k \in DOMAIN localStorage' /\ localStorage'[k] = localStorage[k]]_vars

\* C39: clearCache of the client of one project leaves the entries stored
\* under the keys of another project as they were.
C39_OtherProjectSurvives ==
  [][clearCache =>
       \A k \in DOMAIN localStorage :
         StartsWith(k, Join(<<CACHE_KEY_PREFIX, OtherProject>>, ":") \o ":") =>
           k \in DOMAIN localStorage' /\ localStorage'[k] = localStorage[k]]_vars
====
